---- MODULE Spec2Model ----
(***************************************************************************)
(* A model of the 3DS / I3D chunk explorer: the chunk tree parser          *)
(* (ChunkParser), the chunk decoder (ChunkDecoder.decode), the payload     *)
(* heuristic (guess_payload_type), the unknown-chunk registry              *)
(* (populate_runtime_unknowns) and the window that calls them.             *)
(*                                                                         *)
(* The buffer is a sequence of bytes.  The recursion of parse_chunk is     *)
(* modelled by an explicit call stack; the tree is an arena of nodes in    *)
(* creation order, a node's children being a sequence of arena indices.    *)
(*                                                                         *)
(* The parser exists in three copies (tools/gui/i3d_explorer.py,           *)
(* tools/gui/i3d_mapchange.py, experimental/i3d_explorer.py) that differ   *)
(* in the names of locals only; the model follows the first, also for the  *)
(* decoder and the registry.  The payload heuristic is modelled in both    *)
(* of its versions, tools/gui and experimental.                            *)
(***************************************************************************)
EXTENDS Integers, Sequences, FiniteSets, TLC

VARIABLES
    data,      \* ChunkParser.data: the byte buffer, bytes at offsets 0..Len-1
    nodes,     \* the ChunkNode objects of the parse in progress (root is 1)
    stack,     \* activations of parse / parse_chunk, outermost first
    ret,       \* the pair (node_or_None, next_offset) last returned
    status,    \* "ready", "running", "done" or "error" (uncaught exception)
    run,       \* how many times parse() has been called on this parser
    returned,  \* the trees returned by the completed parse() calls, in order
    selected,        \* the node of the selected tree item (None: no selection)
    info_guess,      \* the label after "Guess: " in info_view
    xp_info_guess,   \* the same label in the experimental explorer
    interpret_view,  \* the text of interpret_view
    slot_error,      \* the exception that left on_tree_select ("" if none)
    xp_interpret_view,  \* the text of interpret_view in the experimental explorer
    xp_slot_error,      \* the exception that left its on_tree_select
    unknown_chunks,  \* the module-level dict unknown_chunks
    handed,          \* the dicts handed to DiscoveryDialog.populate, in order
    loads,           \* how many files have been loaded
    enum_name,       \* the symbolic name given to friendly_name
    friendly         \* what friendly_name returned for it ("" before the call)

\* the state of the explorer window and of the unknown-chunk registry
ui == <<selected, info_guess, xp_info_guess, interpret_view, slot_error,
        xp_interpret_view, xp_slot_error, unknown_chunks, handed, loads>>

\* the argument and the result of friendly_name
names == <<enum_name, friendly>>

vars == <<data, nodes, stack, ret, status, run, returned, ui, names>>

----------------------------------------------------------------------------
(* Bounds of the model.                                                    *)

MaxItems == 3      \* a generated buffer is made of at most this many items
MaxLen == 18       \* and is at most this many bytes long
MaxRuns == 2       \* parse() is called at most this many times per buffer

----------------------------------------------------------------------------
(* Chunk ids.                                                              *)

ROOT_ID == 65535           \* 0xFFFF, the synthetic root
NAMED_OBJECT == 16384      \* 0x4000
MAIN == 19789              \* 0x4D4D
TRI_MESH == 16640          \* 0x4100
M3D_VERSION == 2           \* 0x0002

None == 0                  \* Python's None, as a node reference

\* the container set with the leaf id 0x0002 added to it
Containers_with_version ==
    { \H4D4D, \H3D3D, \H4100, \HAFFF, \HA200, \HB000,
      \HB002, \HB003, \HB004, \HB005, \HB006, \HB007, \HB010, \H0002 }

\* the ids of the elif branch of parse_chunk
Containers ==
    { \H4D4D, \H3D3D, \H4100, \HAFFF, \HA200, \HB000,
      \HB002, \HB003, \HB004, \HB005, \HB006, \HB007, \HB010 }

----------------------------------------------------------------------------
(* Byte access.  Offsets are 0-based as in the source.                     *)

InData(o) == o >= 0 /\ o < Len(data)

Byte(o) == data[o + 1]

\* struct.unpack_from("<H", b, o)
u16(o) == Byte(o) + 256 * Byte(o + 1)

\* struct.unpack_from("<I", b, o)
u32(o) == Byte(o) + 256 * Byte(o + 1) + 65536 * Byte(o + 2) + 16777216 * Byte(o + 3)

\* data[a:b], a Python slice (clipped to the buffer)
Slice(a, b) ==
    LET lo == IF a < Len(data) THEN a ELSE Len(data)
        hi == IF b < Len(data) THEN b ELSE Len(data)
    IN  IF hi <= lo THEN <<>> ELSE [i \in 1..(hi - lo) |-> data[lo + i]]

----------------------------------------------------------------------------
(* ChunkNode.                                                              *)

\* a node whose size counts the 6 header bytes on top of the declared length
ChunkNode_header_added(cid, start, size) ==
    [cid |-> cid, start |-> start, size |-> size + 6, children |-> <<>>,
     parent |-> None]

ChunkNode(cid, start, size) ==
    [cid |-> cid, start |-> start, size |-> size, children |-> <<>>, parent |-> None]

payload_start(n) == n.start + 6

payload_end(n) == n.start + n.size

payload_size(n) == IF n.size - 6 > 0 THEN n.size - 6 ELSE 0

\* add_child with the child inserted at the front of the list
add_child_front(ns, p, c) ==
    LET i == Len(ns) + 1
    IN  [Append(ns, [c EXCEPT !.parent = p]) EXCEPT ![p].children = <<i>> \o @]

\* parent.add_child(c): c is the object just constructed, it gets the next
\* arena index
add_child(ns, p, c) ==
    LET i == Len(ns) + 1
    IN  [Append(ns, [c EXCEPT !.parent = p]) EXCEPT ![p].children = Append(@, i)]

----------------------------------------------------------------------------
(* parse_chunk, up to the creation of the node.                            *)

\* read_header without the check off + length > end
read_header_no_overrun(off, end) ==
    IF off + 6 > end
    THEN [ok |-> FALSE, next_pos |-> off, cid |-> 0, length |-> 0]
    ELSE IF ~InData(off + 5)
    THEN [ok |-> FALSE, next_pos |-> end, cid |-> 0, length |-> 0]
    ELSE IF u32(off + 2) < 6
    THEN [ok |-> FALSE, next_pos |-> end, cid |-> 0, length |-> 0]
    ELSE [ok |-> TRUE, next_pos |-> off + u32(off + 2),
          cid |-> u16(off), length |-> u32(off + 2)]

\* read_header without the check length < 6
read_header_no_min(off, end) ==
    IF off + 6 > end
    THEN [ok |-> FALSE, next_pos |-> off, cid |-> 0, length |-> 0]
    ELSE IF ~InData(off + 5)
    THEN [ok |-> FALSE, next_pos |-> end, cid |-> 0, length |-> 0]
    ELSE IF off + u32(off + 2) > end
    THEN [ok |-> FALSE, next_pos |-> end, cid |-> 0, length |-> 0]
    ELSE [ok |-> TRUE, next_pos |-> off + u32(off + 2),
          cid |-> u16(off), length |-> u32(off + 2)]

\* The outcome of the header checks of parse_chunk(off, end, parent):
\* ok = FALSE with the offset returned beside None, or ok = TRUE with the
\* id and the declared length.
read_header(off, end) ==
    IF off + 6 > end
    THEN [ok |-> FALSE, next_pos |-> off, cid |-> 0, length |-> 0]
    ELSE IF ~InData(off + 5)                       \* struct.error, caught
    THEN [ok |-> FALSE, next_pos |-> end, cid |-> 0, length |-> 0]
    ELSE IF u32(off + 2) < 6 \/ off + u32(off + 2) > end
    THEN [ok |-> FALSE, next_pos |-> end, cid |-> 0, length |-> 0]
    ELSE [ok |-> TRUE, next_pos |-> off + u32(off + 2),
          cid |-> u16(off), length |-> u32(off + 2)]

\* while pos < pend and d[pos] != 0: pos += 1
\* -1 stands for the IndexError of d[pos] past the end of the buffer.
RECURSIVE name_scan(_, _)
name_scan(pos, pend) ==
    IF pos < pend
    THEN IF ~InData(pos) THEN -1
         ELSE IF Byte(pos) /= 0 THEN name_scan(pos + 1, pend) ELSE pos
    ELSE pos

\* the terminator not skipped
skip_terminator_none(pos, pend) == pos

\* if pos < pend: pos += 1
skip_terminator(pos, pend) == IF pos < pend THEN pos + 1 ELSE pos

\* the condition of "break" in the three child-parsing loops
loop_breaks(ch, next_pos, pos) == ch = None \/ next_pos <= pos

\* the cursor left where it was
advance_stuck(pos, next_pos) == pos

\* the cursor moved past the header only
advance_header_only(pos, next_pos) == pos + 6

\* pos = next_pos
advance(pos, next_pos) == next_pos

\* the root of the previous parse() call kept and used again
new_root_reused(prev) ==
    IF prev = <<>> THEN <<ChunkNode(ROOT_ID, 0, Len(data))>> ELSE prev

\* root = ChunkNode(0xFFFF, 0, len(self.data)); prev is the tree of the
\* previous parse() call, which the code does not consult
new_root(prev) == <<ChunkNode(ROOT_ID, 0, Len(data))>>

----------------------------------------------------------------------------
(* The call stack.                                                         *)

Top == stack[Len(stack)]

Pop == SubSeq(stack, 1, Len(stack) - 1)

SetTop(f) == [stack EXCEPT ![Len(stack)] = f]

\* an activation: fn is "parse" or "parse_chunk"; off, end, parent are the
\* arguments of parse_chunk; node is the node it created (the root for
\* parse); pos and pend are the cursor and the end of its loop
Frame(fn, off, end, parent, node, pos, pend, pc) ==
    [fn |-> fn, off |-> off, end |-> end, parent |-> parent, node |-> node,
     pos |-> pos, pend |-> pend, pc |-> pc]

NoRet == [ch |-> None, next_pos |-> 0]

\* the number of nested parse_chunk activations
Depth == IF stack = <<>> THEN 0 ELSE Len(stack) - 1

----------------------------------------------------------------------------
(* The buffers the parser is run on.                                       *)

\* a 6-byte chunk header: little-endian 16-bit id, little-endian 32-bit length
Hdr(cid, len) ==
    << cid % 256, cid \div 256,
       len % 256, (len \div 256) % 256, (len \div 65536) % 256, len \div 16777216 >>

ItemIds == {MAIN, NAMED_OBJECT, M3D_VERSION}

ItemLens == {5, 6, 12, 18}

\* a header, well-formed or not (declared length below 6, or beyond what
\* follows it), a named object with room for a one-byte name and one empty
\* chunk, or a single zero byte
Items ==
    {Hdr(c, l) : c \in ItemIds, l \in ItemLens}
        \cup {Hdr(NAMED_OBJECT, 13)} \cup {<<0>>}

RECURSIVE Concat(_)
Concat(ss) == IF ss = <<>> THEN <<>> ELSE Head(ss) \o Concat(Tail(ss))

GeneratedBuffers ==
    { b \in { Concat(s) : s \in UNION { [1..n -> Items] : n \in 0..MaxItems } } :
        Len(b) <= MaxLen }

\* 0x4D4D of length 14 holding 0x0002 of length 8 whose payload is 3
VersionBuffer == Hdr(MAIN, 14) \o Hdr(M3D_VERSION, 8) \o <<3, 0>>

\* the same with the declared lengths 12 and 6: the two bytes of the value
\* lie after both chunks
ShortVersionBuffer == Hdr(MAIN, 12) \o Hdr(M3D_VERSION, 6) \o <<3, 0>>

\* 0x4000 of length 18: "Box01", a zero byte, and an empty 0x4100
BoxBuffer == Hdr(NAMED_OBJECT, 18) \o <<66, 111, 120, 48, 49, 0>> \o Hdr(TRI_MESH, 6)

\* 0x4000 of length 8 whose payload "BB" holds no zero byte
NoZeroBuffer == Hdr(NAMED_OBJECT, 8) \o <<66, 66>>

Buffers ==
    GeneratedBuffers \cup {VersionBuffer, ShortVersionBuffer, BoxBuffer, NoZeroBuffer}

----------------------------------------------------------------------------
(* The state machine.                                                      *)

\* ChunkParser(data): the parser is constructed, parse() not yet called
Init ==
    /\ data \in Buffers
    /\ nodes = <<>>
    /\ stack = <<>>
    /\ ret = NoRet
    /\ status = "ready"
    /\ run = 0
    /\ returned = <<>>
    /\ selected = None
    /\ info_guess = ""
    /\ xp_info_guess = ""
    /\ interpret_view = ""
    /\ slot_error = ""
    /\ xp_interpret_view = ""
    /\ xp_slot_error = ""
    /\ unknown_chunks = <<>>
    /\ handed = <<>>
    /\ loads = 1
    /\ enum_name = <<>>
    /\ friendly = ""

\* parse() is called: the root is created and the top-level loop starts
Parse ==
    /\ status \in {"ready", "done"}
    /\ run < MaxRuns
    /\ nodes' = new_root(nodes)
    /\ stack' = <<Frame("parse", 0, Len(data), None, 1, 0, Len(data), "loop")>>
    /\ ret' = NoRet
    /\ status' = "running"
    /\ run' = run + 1
    /\ UNCHANGED <<data, returned>>
    /\ UNCHANGED <<ui, names>>

\* while pos + 6 <= pend: ch, next_pos = self.parse_chunk(pos, pend, node)
CallChunk ==
    /\ status = "running"
    /\ Top.pc = "loop"
    /\ Top.pos + 6 <= Top.pend
    /\ stack' = Append(SetTop([Top EXCEPT !.pc = "wait"]),
                       Frame("parse_chunk", Top.pos, Top.pend, Top.node, None,
                             0, 0, "entry"))
    /\ UNCHANGED <<data, nodes, ret, status, run, returned>>
    /\ UNCHANGED <<ui, names>>

\* the loop condition pos + 6 <= pend is false: the loop ends
LoopExit ==
    /\ status = "running"
    /\ Top.pc = "loop"
    /\ ~(Top.pos + 6 <= Top.pend)
    /\ stack' = SetTop([Top EXCEPT !.pc = "return"])
    /\ UNCHANGED <<data, nodes, ret, status, run, returned>>
    /\ UNCHANGED <<ui, names>>

\* parse_chunk returns (None, offset): no node is created
HeaderFail ==
    /\ status = "running"
    /\ Top.pc = "entry"
    /\ ~read_header(Top.off, Top.end).ok
    /\ ret' = [ch |-> None, next_pos |-> read_header(Top.off, Top.end).next_pos]
    /\ stack' = Pop
    /\ UNCHANGED <<data, nodes, status, run, returned>>
    /\ UNCHANGED <<ui, names>>

\* a chunk that is neither the named object nor a container: a leaf
ChunkLeaf ==
    /\ status = "running"
    /\ Top.pc = "entry"
    /\ LET h == read_header(Top.off, Top.end) IN
        /\ h.ok
        /\ h.cid /= NAMED_OBJECT
        /\ h.cid \notin Containers
        /\ nodes' = add_child(nodes, Top.parent, ChunkNode(h.cid, Top.off, h.length))
        /\ stack' = SetTop([Top EXCEPT !.node = Len(nodes) + 1, !.pc = "return"])
    /\ UNCHANGED <<data, ret, status, run, returned>>
    /\ UNCHANGED <<ui, names>>

\* cid == 0x4000: the name is scanned, then the subchunk loop starts
ChunkNamed ==
    /\ status = "running"
    /\ Top.pc = "entry"
    /\ LET h == read_header(Top.off, Top.end)
           n == ChunkNode(h.cid, Top.off, h.length)
           z == name_scan(payload_start(n), payload_end(n))
       IN
        /\ h.ok
        /\ h.cid = NAMED_OBJECT
        /\ nodes' = add_child(nodes, Top.parent, n)
        /\ IF z = -1
           THEN /\ status' = "error"
                /\ stack' = <<>>
           ELSE /\ status' = status
                /\ stack' = SetTop([Top EXCEPT !.node = Len(nodes) + 1,
                                               !.pos = skip_terminator(z, payload_end(n)),
                                               !.pend = payload_end(n),
                                               !.pc = "loop"])
    /\ UNCHANGED <<data, ret, run, returned>>
    /\ UNCHANGED <<ui, names>>

\* cid in the container set: the subchunk loop starts at payload_start
ChunkContainer ==
    /\ status = "running"
    /\ Top.pc = "entry"
    /\ LET h == read_header(Top.off, Top.end)
           n == ChunkNode(h.cid, Top.off, h.length)
       IN
        /\ h.ok
        /\ h.cid /= NAMED_OBJECT
        /\ h.cid \in Containers
        /\ nodes' = add_child(nodes, Top.parent, n)
        /\ stack' = SetTop([Top EXCEPT !.node = Len(nodes) + 1,
                                       !.pos = payload_start(n),
                                       !.pend = payload_end(n),
                                       !.pc = "loop"])
    /\ UNCHANGED <<data, ret, status, run, returned>>
    /\ UNCHANGED <<ui, names>>

\* a failed call answered by skipping six bytes and going on
LoopBreakResync ==
    /\ status = "running"
    /\ Top.pc = "wait"
    /\ loop_breaks(ret.ch, ret.next_pos, Top.pos)
    /\ stack' = SetTop([Top EXCEPT !.pos = Top.pos + 6, !.pc = "loop"])
    /\ UNCHANGED <<data, nodes, ret, status, run, returned>>
    /\ UNCHANGED <<ui, names>>

\* if not ch or next_pos <= pos: break
LoopBreak ==
    /\ status = "running"
    /\ Top.pc = "wait"
    /\ loop_breaks(ret.ch, ret.next_pos, Top.pos)
    /\ stack' = SetTop([Top EXCEPT !.pc = "return"])
    /\ UNCHANGED <<data, nodes, ret, status, run, returned>>
    /\ UNCHANGED <<ui, names>>

\* pos = next_pos, and back to the loop condition
LoopAdvance ==
    /\ status = "running"
    /\ Top.pc = "wait"
    /\ ~loop_breaks(ret.ch, ret.next_pos, Top.pos)
    /\ stack' = SetTop([Top EXCEPT !.pos = advance(Top.pos, ret.next_pos), !.pc = "loop"])
    /\ UNCHANGED <<data, nodes, ret, status, run, returned>>
    /\ UNCHANGED <<ui, names>>

\* return node, off + length
ChunkReturn ==
    /\ status = "running"
    /\ Top.pc = "return"
    /\ Top.fn = "parse_chunk"
    /\ ret' = [ch |-> Top.node, next_pos |-> Top.off + nodes[Top.node].size]
    /\ stack' = Pop
    /\ UNCHANGED <<data, nodes, status, run, returned>>
    /\ UNCHANGED <<ui, names>>

\* return root
ParseReturn ==
    /\ status = "running"
    /\ Top.pc = "return"
    /\ Top.fn = "parse"
    /\ returned' = Append(returned, nodes)
    /\ stack' = <<>>
    /\ status' = "done"
    /\ UNCHANGED <<data, nodes, ret, run>>
    /\ UNCHANGED <<ui, names>>

Next ==
    \/ Parse
    \/ CallChunk
    \/ LoopExit
    \/ HeaderFail
    \/ ChunkLeaf
    \/ ChunkNamed
    \/ ChunkContainer
    \/ LoopBreak
    \/ LoopAdvance
    \/ ChunkReturn
    \/ ParseReturn

Spec == Init /\ [][Next]_vars

\* the program is sequential: a step that can be taken is taken
LiveSpec == Init /\ [][Next]_vars /\ WF_vars(Next)

TypeOK ==
    /\ status \in {"ready", "running", "done", "error"}
    /\ run \in 0..MaxRuns
    /\ Len(returned) <= run

----------------------------------------------------------------------------
(* ChunkDecoder (tools/gui/i3d_explorer.py).  A text is a string; a float  *)
(* is kept as the four bytes it was unpacked from.                         *)

\* b[o:o+n] of a byte sequence b
BytesAt(b, o, n) ==
    LET hi == IF o + n < Len(b) THEN o + n ELSE Len(b)
    IN  IF hi <= o THEN <<>> ELSE [i \in 1..(hi - o) |-> b[o + i]]

\* int.from_bytes(s, "big")
RECURSIVE from_bytes_big(_)
from_bytes_big(s) ==
    IF s = <<>> THEN 0
    ELSE s[Len(s)] + 256 * from_bytes_big(SubSeq(s, 1, Len(s) - 1))

\* int.from_bytes(s, "little")
RECURSIVE from_bytes_little(_)
from_bytes_little(s) ==
    IF s = <<>> THEN 0 ELSE Head(s) + 256 * from_bytes_little(Tail(s))

\* the two bytes read most significant first
du16_big(b, o) == from_bytes_big(BytesAt(b, o, 2))

\* ChunkDecoder.u16(b, o)
du16(b, o) == from_bytes_little(BytesAt(b, o, 2))

\* ChunkDecoder.u32(b, o)
du32(b, o) == from_bytes_little(BytesAt(b, o, 4))

\* the outcome of decode when struct.unpack raises struct.error
struct_error == "struct.error"

\* ChunkDecoder.f32(b, o): struct.unpack("<f", b[o:o+4]) raises unless the
\* slice has four bytes
f32_raises(b, o) == Len(BytesAt(b, o, 4)) /= 4

\* the float it returns otherwise
f32(b, o) == BytesAt(b, o, 4)

\* f"{x:.4f}" for zero and the subnormal floats, 0.5 and 1.0, the ones the
\* buffers of the model hold; "?" stands for the digits of any other float
fmt4(x) ==
    IF x[4] = 0 /\ x[3] < 128 THEN "0.0000"
    ELSE IF x = <<0, 0, 0, 63>> THEN "0.5000"
    ELSE IF x = <<0, 0, 128, 63>> THEN "1.0000"
    ELSE "?"

\* f"{x*100:.2f}" for the same floats
fmt_pct(x) ==
    IF x = <<0, 0, 0, 0>> THEN "0.00"
    ELSE IF x = <<0, 0, 0, 63>> THEN "50.00"
    ELSE IF x = <<0, 0, 128, 63>> THEN "100.00"
    ELSE "?"

\* f"{x}" for the same floats
fmt_repr(x) ==
    IF x = <<0, 0, 0, 0>> THEN "0.0"
    ELSE IF x = <<0, 0, 0, 63>> THEN "0.5"
    ELSE IF x = <<0, 0, 128, 63>> THEN "1.0"
    ELSE "?"

HexDigit(d) ==
    <<"0", "1", "2", "3", "4", "5", "6", "7",
      "8", "9", "A", "B", "C", "D", "E", "F">>[d + 1]

\* f"{cid:04X}" for a 16-bit id
Hex4(cid) ==
    HexDigit((cid \div 4096) % 16) \o HexDigit((cid \div 256) % 16)
        \o HexDigit((cid \div 16) % 16) \o HexDigit(cid % 16)

\* "\n".join(out)
RECURSIVE join(_)
join(out) ==
    IF out = <<>> THEN ""
    ELSE IF Len(out) = 1 THEN out[1]
    ELSE out[1] \o "\n" \o join(Tail(out))

Min(a, b) == IF a < b THEN a ELSE b

\* the payload the explorer hands to decode for node n:
\* file_data[node.payload_start:node.payload_end]
Payload(n) == Slice(payload_start(n), payload_end(n))

\* f"({f32(cp,0):.4f}, {f32(cp,4):.4f}, {f32(cp,8):.4f})" of a payload of
\* at least 12 bytes
rgb_float(cp) ==
    "(" \o fmt4(f32(cp, 0)) \o ", " \o fmt4(f32(cp, 4)) \o ", "
        \o fmt4(f32(cp, 8)) \o ")"

\* f"({cp[0]}, {cp[1]}, {cp[2]})" of a payload of at least 3 bytes
rgb_24(cp) ==
    "(" \o ToString(cp[1]) \o ", " \o ToString(cp[2]) \o ", "
        \o ToString(cp[3]) \o ")"

\* a loop over nodes that ended without a return
no_return == ""

\* names[cid] of the material color branch
color_name(cid) ==
    IF cid = \HA010 THEN "Ambient Color"
    ELSE IF cid = \HA020 THEN "Diffuse Color"
    ELSE "Specular Color"

\* for child in node.children: the text of the first child the loop returns
\* for, cs being the children not yet visited
RECURSIVE color_from_children(_, _, _)
color_from_children(t, name, cs) ==
    IF cs = <<>> THEN no_return
    ELSE LET child == t[Head(cs)]
             cp == Payload(child)
         IN  IF child.cid = \H0010 /\ Len(cp) >= 12
             THEN name \o ": " \o rgb_float(cp)
             ELSE IF child.cid = \H0011 /\ Len(cp) >= 3
             THEN name \o ": " \o rgb_24(cp)
             ELSE IF child.cid = \H0012 /\ Len(cp) >= 3
             THEN name \o " (Linear): " \o rgb_24(cp)
             ELSE IF child.cid = \H0013 /\ Len(cp) >= 12
             THEN name \o " (Linear): " \o rgb_float(cp)
             ELSE color_from_children(t, name, Tail(cs))

\* for sibling in node.parent.children: the text of the first sibling the
\* loop returns for, node i itself being skipped
RECURSIVE color_from_siblings(_, _, _, _)
color_from_siblings(t, i, name, ss) ==
    IF ss = <<>> THEN no_return
    ELSE IF Head(ss) = i THEN color_from_siblings(t, i, name, Tail(ss))
    ELSE LET sibling == t[Head(ss)]
             sp == Payload(sibling)
         IN  IF sibling.cid = \H0011 /\ Len(sp) >= 3
             THEN name \o " (from parent): " \o rgb_24(sp)
             ELSE IF sibling.cid = \H0010 /\ Len(sp) >= 12
             THEN name \o " (from parent): " \o rgb_float(sp)
             ELSE color_from_siblings(t, i, name, Tail(ss))

\* a final fallback that returns the empty text
color_default_empty(name) == ""

\* the final fallback of the material color branch
color_default(name) == name \o ": (not set) [default: (1.0, 1.0, 1.0)]"

\* the branch of decode for 0xA010, 0xA020 and 0xA030, i being the node
material_color(t, i) ==
    LET name == color_name(t[i].cid)
        from_child == color_from_children(t, name, t[i].children)
        from_sibling == color_from_siblings(t, i, name, t[t[i].parent].children)
    IN  IF from_child /= no_return THEN from_child
        ELSE IF from_sibling /= no_return THEN from_sibling
        ELSE color_default(name)

\* the label of the branches for 0xA040, 0xA041, 0xA050 and 0xA084
pct_name(cid) ==
    IF cid = \HA040 THEN "Shininess"
    ELSE IF cid = \HA041 THEN "Shin Strength"
    ELSE IF cid = \HA050 THEN "Transparency"
    ELSE "Self Illumination"

\* for ch in node.children of these four branches
RECURSIVE pct_from_children(_, _, _)
pct_from_children(t, name, cs) ==
    IF cs = <<>> THEN no_return
    ELSE LET ch == t[Head(cs)]
             cp == Payload(ch)
         IN  IF ch.cid = \H0030 /\ Len(cp) >= 2
             THEN name \o ": " \o ToString(du16(cp, 0)) \o "%"
             ELSE IF ch.cid = \H0031 /\ Len(cp) >= 4
             THEN name \o ": " \o fmt_pct(f32(cp, 0)) \o "%"
             ELSE pct_from_children(t, name, Tail(cs))

\* the text returned after the loop of these four branches
pct_default(name) == name \o ": (not set) [default: 0%]"

\* the branches of decode for 0xA040, 0xA041, 0xA050 and 0xA084: the
\* children are scanned, the siblings are not
material_pct(t, i) ==
    LET name == pct_name(t[i].cid)
        from_child == pct_from_children(t, name, t[i].children)
    IN  IF from_child /= no_return THEN from_child
        ELSE pct_default(name)

\* the names of the shading branch (0xA100)
shading_name(mode) ==
    IF mode = 0 THEN "Wireframe"
    ELSE IF mode = 1 THEN "Flat"
    ELSE IF mode = 2 THEN "Gouraud"
    ELSE IF mode = 3 THEN "Phong"
    ELSE IF mode = 4 THEN "Metal"
    ELSE "Unknown (" \o ToString(mode) \o ")"

\* the lines appended by the loop of the vertex list branch from record i
\* at offset off on, n = min(count, 20)
RECURSIVE vertex_records(_, _, _, _)
vertex_records(d, i, off, n) ==
    IF i >= n \/ off + 12 > Len(d) THEN <<>>
    ELSE << "[" \o ToString(i) \o "] (" \o fmt4(f32(d, off)) \o ", "
                \o fmt4(f32(d, off + 4)) \o ", " \o fmt4(f32(d, off + 8)) \o ")" >>
             \o vertex_records(d, i + 1, off + 12, n)

\* out of the vertex list branch (0x4110) for a payload of 2 bytes or more
vertex_list(d) ==
    << "Vertex Count: " \o ToString(du16(d, 0)) >>
        \o vertex_records(d, 0, 2, Min(du16(d, 0), 20))

\* the lines appended by the loop of the face list branch: no test of off
\* against len(data), u16 of a slice cut short by the end of the payload
\* being the value of the bytes left
RECURSIVE face_records(_, _, _, _)
face_records(d, i, off, n) ==
    IF i >= n THEN <<>>
    ELSE << "[" \o ToString(i) \o "] (" \o ToString(du16(d, off)) \o ", "
                \o ToString(du16(d, off + 2)) \o ", "
                \o ToString(du16(d, off + 4)) \o ") flags=0x"
                \o Hex4(du16(d, off + 6)) >>
             \o face_records(d, i + 1, off + 8, n)

\* out of the face list branch (0x4120) for a payload of 2 bytes or more
face_list(d) ==
    << "Face Count: " \o ToString(du16(d, 0)) >>
        \o face_records(d, 0, 2, Min(du16(d, 0), 20))

\* the lines appended by the loop of the UV list branch: no test of off
\* against len(data), and f32 raises on a slice cut short, which ends the
\* loop and decode with the exception
RECURSIVE uv_records(_, _, _, _)
uv_records(d, i, off, n) ==
    IF i >= n THEN <<>>
    ELSE IF f32_raises(d, off) \/ f32_raises(d, off + 4)
    THEN <<struct_error>>
    ELSE << "[" \o ToString(i) \o "] U=" \o fmt4(f32(d, off)) \o ", V="
                \o fmt4(f32(d, off + 4)) >>
             \o uv_records(d, i + 1, off + 8, n)

\* out of the UV list branch (0x4140) for a payload of 2 bytes or more; the
\* last element is struct_error when the loop raised
uv_list(d) ==
    << "UV Count: " \o ToString(du16(d, 0)) >>
        \o uv_records(d, 0, 2, Min(du16(d, 0), 20))

\* whether a list of lines ends with the exception
raised(out) == out /= <<>> /\ out[Len(out)] = struct_error

\* one row of the transform matrix: four floats from offset off
matrix_row(d, off) ==
    fmt4(f32(d, off)) \o " " \o fmt4(f32(d, off + 4)) \o " "
        \o fmt4(f32(d, off + 8)) \o " " \o fmt4(f32(d, off + 12))

\* the ids of the branches of decode that this model leaves out: the
\* material name, the map blocks, the texture file, the map parameters and
\* the map channel
\* the UV lines of the map channel branch (0x4200): at most n of them, the
\* loop being left when a record would end behind the payload
RECURSIVE map_uv_records(_, _, _, _)
map_uv_records(d, i, off, n) ==
    IF i >= n \/ off + 8 > Len(d) THEN <<>>
    ELSE << "[" \o ToString(i) \o "] U=" \o fmt4(f32(d, off)) \o ", V="
                \o fmt4(f32(d, off + 4)) >>
             \o map_uv_records(d, i + 1, off + 8, n)

\* off when that loop is left: 8 bytes further for every line appended
map_uv_end(d, n) == 6 + 8 * Len(map_uv_records(d, 0, 6, n))

\* the UV face lines of the map channel branch
RECURSIVE map_face_records(_, _, _, _)
map_face_records(d, i, off, n) ==
    IF i >= n \/ off + 6 > Len(d) THEN <<>>
    ELSE << "[" \o ToString(i) \o "] " \o ToString(du16(d, off)) \o ", "
                \o ToString(du16(d, off + 2)) \o ", "
                \o ToString(du16(d, off + 4)) >>
             \o map_face_records(d, i + 1, off + 2 + 4, n)

\* the face count read at off and the face lines after it, or nothing
\* when no 16-bit value is left at off
map_faces(d, off) ==
    IF off + 2 <= Len(d)
    THEN << "UV Face Count: " \o ToString(du16(d, off)) >>
             \o map_face_records(d, 0, off + 2, Min(du16(d, off), 10))
    ELSE <<>>

\* the two lines every map channel text starts with
map_head(d) ==
    << "Channel Index: " \o ToString(du32(d, 0)),
       "UV Count: " \o ToString(du16(d, 4)) >>

\* out of the map channel branch (0x4200) for a payload of 6 bytes or more
map_channel(d) ==
    map_head(d) \o map_uv_records(d, 0, 6, Min(du16(d, 4), 10))
        \o map_faces(d, map_uv_end(d, Min(du16(d, 4), 10)))

OtherHandlerIds ==
    { \HA000, \HA200, \HA204, \HA210, \HA220, \HA230, \HA300, \HA351 }

\* the fallback at the end of decode
no_decoder(cid, d) ==
    "No decoder for 0x" \o Hex4(cid) \o " (payload "
        \o ToString(Len(d)) \o " bytes)"

\* decode(node, data, full_data): t is the tree, i the node, d the payload
\* of the node; the result is the text returned, or struct_error
decode(t, i, d) ==
    LET cid == t[i].cid
    IN  IF cid = \H0000 THEN "Null Chunk"
        ELSE IF cid = \H0002 /\ Len(d) >= 2
        THEN "3DS Version: " \o ToString(du16(d, 0))
        ELSE IF cid = \H0100 /\ Len(d) >= 4
        THEN "Master Scale: " \o fmt_repr(f32(d, 0))
        ELSE IF cid = \H0010 /\ Len(d) >= 12 THEN "RGB Float: " \o rgb_float(d)
        ELSE IF cid = \H0011 /\ Len(d) >= 3 THEN "RGB 24: " \o rgb_24(d)
        ELSE IF cid = \H0012 /\ Len(d) >= 3 THEN "Linear RGB 24: " \o rgb_24(d)
        ELSE IF cid = \H0013 /\ Len(d) >= 12
        THEN "Linear RGB Float: " \o rgb_float(d)
        ELSE IF cid = \H0030 /\ Len(d) >= 2
        THEN "Int Percentage: " \o ToString(du16(d, 0)) \o "%"
        ELSE IF cid = \H0031 /\ Len(d) >= 4
        THEN "Float Percentage: " \o fmt_pct(f32(d, 0)) \o "%"
        ELSE IF cid \in {\HA010, \HA020, \HA030} THEN material_color(t, i)
        ELSE IF cid \in {\HA040, \HA041, \HA050, \HA084} THEN material_pct(t, i)
        ELSE IF cid = \HA087
        THEN IF Len(d) >= 4 THEN "Wire Size: " \o fmt4(f32(d, 0))
             ELSE "Wire Size: (not set) [default: 1.0]"
        ELSE IF cid = \HA100 /\ Len(d) >= 2
        THEN "Shading: " \o shading_name(du16(d, 0))
        ELSE IF cid = \H4110
        THEN IF Len(d) < 2 THEN "Invalid Vertex List" ELSE join(vertex_list(d))
        ELSE IF cid = \H4120
        THEN IF Len(d) < 2 THEN "Invalid Face List" ELSE join(face_list(d))
        ELSE IF cid = \H4140
        THEN IF Len(d) < 2 THEN "Invalid UV List"
             ELSE IF raised(uv_list(d)) THEN struct_error
             ELSE join(uv_list(d))
        ELSE IF cid = \H4160 /\ Len(d) >= 48
        THEN "Transform Matrix (3x4):\n" \o matrix_row(d, 0) \o "\n"
                 \o matrix_row(d, 16) \o "\n" \o matrix_row(d, 32)
        ELSE IF cid \in OtherHandlerIds THEN "(handler not modelled)"
        ELSE IF cid = \H4200
        THEN IF Len(d) < 6 THEN "Invalid MAP_CHANNEL" ELSE join(map_channel(d))
        ELSE IF cid = \HA353 /\ Len(d) >= 4 THEN "Blur: " \o fmt4(f32(d, 0))
        ELSE IF cid = \HB002
        THEN "Object Node Tag (payload " \o ToString(Len(d)) \o " bytes)"
        ELSE IF cid = \HB030 /\ Len(d) >= 2
        THEN "Node ID: " \o ToString(du16(d, 0))
        ELSE no_decoder(cid, d)

----------------------------------------------------------------------------
(* The animation track branches of the experimental decoder.               *)

\* the ids of the tracks read with read_track_header and read_key_header
TrackIds == { \HB020, \HB021, \HB022, \HB023, \HB029, \HB02A }

\* Python's None where the code expects a non-negative integer
Nothing == -1

\* the exception of a format such as f"{flags:04X}" applied to None
type_error == "TypeError"

\* f"{x}" for an integer or None
py_str(x) == IF x = Nothing THEN "None" ELSE ToString(x)

\* f"{x:.3f}" for the floats the model uses
fmt3(x) ==
    IF x[4] = 0 /\ x[3] < 128 THEN "0.000"
    ELSE IF x = <<0, 0, 0, 63>> THEN "0.500"
    ELSE IF x = <<0, 0, 128, 63>> THEN "1.000"
    ELSE "?"

\* read_track_header of the track branches: flags, unk, keys and off
read_track_header(buf) ==
    IF Len(buf) < 8 THEN [flags |-> Nothing, unk |-> Nothing, keys |-> 0, off |-> 0]
    ELSE [flags |-> du16(buf, 0), unk |-> du16(buf, 2), keys |-> du32(buf, 4),
          off |-> 8]

\* read_key_header: frame, kflags and the offset behind the key header, or
\* None, None and the offset unchanged when 6 bytes are not left
read_key_header(buf, off) ==
    IF off + 6 > Len(buf) THEN [frame |-> Nothing, kflags |-> Nothing, off |-> off]
    ELSE [frame |-> du32(buf, off), kflags |-> du16(buf, off + 4), off |-> off + 6]

\* the number of bytes of a key's value: N of 'if off + N > len(data)'
value_size(cid) ==
    IF cid = \HB021 THEN 16
    ELSE IF cid = \HB023 THEN 4
    ELSE IF cid = \HB029 THEN 2
    ELSE 12

\* the offset at which the while loop of the note track stops: the first
\* zero byte from off on, or len(data)
RECURSIVE note_end(_, _)
note_end(d, off) ==
    IF off < Len(d) /\ d[off + 1] /= 0 THEN note_end(d, off + 1) ELSE off

\* the keys for which the loop of a track branch appends a line: i is the
\* index, at the offset given to read_key_header, frame and kflags what it
\* returned, off and end the offsets of the key's value
RECURSIVE track_keys(_, _, _, _, _)
track_keys(cid, d, i, off, n) ==
    IF i >= n THEN <<>>
    ELSE LET h == read_key_header(d, off)
         IN  IF cid = \HB02A
             THEN LET e == note_end(d, h.off)
                  IN  << [i |-> i, at |-> off, frame |-> h.frame,
                          kflags |-> h.kflags, off |-> h.off, end |-> e] >>
                          \o track_keys(cid, d, i + 1,
                                        IF e < Len(d) THEN e + 1 ELSE e, n)
             ELSE IF h.off + value_size(cid) > Len(d) THEN <<>>
             ELSE << [i |-> i, at |-> off, frame |-> h.frame,
                      kflags |-> h.kflags, off |-> h.off,
                      end |-> h.off + value_size(cid)] >>
                      \o track_keys(cid, d, i + 1, h.off + value_size(cid), n)

\* the keys of a track payload
keys_of(cid, d) ==
    track_keys(cid, d, 0, read_track_header(d).off,
               Min(read_track_header(d).keys, 50))

\* bytes(text).decode('ascii', 'replace') for the letters the model uses
ascii_char(b) ==
    IF b = 97 THEN "a" ELSE IF b = 98 THEN "b" ELSE "?"

RECURSIVE ascii_text(_)
ascii_text(s) ==
    IF s = <<>> THEN "" ELSE ascii_char(Head(s)) \o ascii_text(Tail(s))

\* f"{v == 0}"
py_bool(b) == IF b THEN "True" ELSE "False"

\* three floats from offset off, each with four decimals
floats3(d, off) ==
    fmt4(f32(d, off)) \o ", " \o fmt4(f32(d, off + 4)) \o ", "
        \o fmt4(f32(d, off + 8))

\* the line appended for key k
key_line(cid, d, k) ==
    LET lead == "  [" \o ToString(k.i) \o "] Frame=" \o py_str(k.frame)
    IN  IF cid = \HB020
        THEN lead \o "  Flags=0x" \o Hex4(k.kflags) \o "  Pos=("
                 \o floats3(d, k.off) \o ")"
        ELSE IF cid = \HB021
        THEN lead \o " Flags=0x" \o Hex4(k.kflags) \o "  Angle="
                 \o fmt4(f32(d, k.off)) \o "  Axis=("
                 \o fmt3(f32(d, k.off + 4)) \o ", " \o fmt3(f32(d, k.off + 8))
                 \o ", " \o fmt3(f32(d, k.off + 12)) \o ")"
        ELSE IF cid = \HB022
        THEN lead \o " Flags=0x" \o Hex4(k.kflags) \o "  Scale=("
                 \o floats3(d, k.off) \o ")"
        ELSE IF cid = \HB023
        THEN lead \o "  FOV=" \o fmt4(f32(d, k.off))
        ELSE IF cid = \HB029
        THEN lead \o "  Visible=" \o py_bool(du16(d, k.off) = 0)
        ELSE lead \o "  Note: "
                 \o ascii_text(IF k.end > k.off THEN SubSeq(d, k.off + 1, k.end)
                               ELSE <<>>)

\* the branches that format flags and kflags as four hex digits
FlagTrackIds == { \HB020, \HB021, \HB022 }

track_title(cid) ==
    IF cid = \HB020 THEN "Position Track:"
    ELSE IF cid = \HB021 THEN "Rotation Track:"
    ELSE IF cid = \HB022 THEN "Scale Track:"
    ELSE IF cid = \HB023 THEN "FOV Track:"
    ELSE IF cid = \HB029 THEN "Hide Track:"
    ELSE "Note Track:"

\* the lines appended before the loop
track_head(cid, d) ==
    LET h == read_track_header(d)
    IN  IF cid \in FlagTrackIds
        THEN << track_title(cid), "  Flags: 0x" \o Hex4(h.flags),
                "  Key Count: " \o ToString(h.keys) >>
        ELSE IF cid = \HB023
        THEN << track_title(cid), "  Key Count: " \o ToString(h.keys) >>
        ELSE << track_title(cid) >>

\* whether a format of the branch is applied to None
track_raises(cid, d) ==
    /\ cid \in FlagTrackIds
    /\ \/ read_track_header(d).flags = Nothing
       \/ \E k \in DOMAIN keys_of(cid, d) : keys_of(cid, d)[k].kflags = Nothing

\* the text returned by a track branch, or type_error
track_text(cid, d) ==
    IF track_raises(cid, d) THEN type_error
    ELSE join(track_head(cid, d)
                  \o [k \in DOMAIN keys_of(cid, d) |-> key_line(cid, d, keys_of(cid, d)[k])])

\* decode of the experimental variant, its track branches only
xp_decode(cid, d) ==
    IF cid \in TrackIds THEN track_text(cid, d) ELSE "(handler not modelled)"

----------------------------------------------------------------------------
(* The chunk tables, the payload heuristic and the unknown-chunk registry. *)

\* the keys of CHUNK_NAMES_3DS
CHUNK_NAMES_3DS ==
    { \H4D4D, \H3D3D, \H0000, \H0002, \H0010, \H0011, \H0012, \H0013, \H0030,
      \H0031, \H0100, \H4000, \H4010, \H4016, \H4100, \H4110, \H4111, \H4120,
      \H4130, \H4140, \H4150, \H4160, \H4165, \H4600, \H4610, \H4620, \H4625,
      \H4700, \H4720, \HAFFF, \HA000, \HA010, \HA020, \HA030, \HA040, \HA041,
      \HA050, \HA081, \HA084, \HA085, \HA087, \HA08A, \HA08C, \HA100, \HA200,
      \HA204, \HA210, \HA220, \HA230, \HA300, \HA351, \HA353, \HB000, \HB002,
      \HB003, \HB004, \HB005, \HB006, \HB007, \HB008, \HB009, \HB00A, \HB00B,
      \HB00E, \HB010, \HB011, \HB013, \HB014, \HB020, \HB021, \HB022, \HB023,
      \HB024, \HB025, \HB027, \HB028, \HB029, \HB02A, \HB030 }

\* the keys of CHUNK_NAMES_I3D
CHUNK_NAMES_I3D == { \H4200 }

\* 32 <= b <= 126 or b in (9, 10, 13)
is_good(b) == (32 <= b /\ b <= 126) \/ b \in {9, 10, 13}

\* sum(1 for b in data if ...)
good_count(d) == Cardinality({k \in DOMAIN d : is_good(d[k])})

\* the test with the share of exactly 85% accepted
looks_ascii_at_least(d) ==
    d /= <<>> /\ 100 * good_count(d) >= 85 * Len(d)

\* looks_ascii(data): good / len(data) > 0.85.  The quotient is the double
\* nearest to good/len and 0.85 the double nearest to 17/20, so the test is
\* 20 * good > 17 * len for every length a buffer can have
looks_ascii(d) ==
    d /= <<>> /\ 100 * good_count(d) > 85 * Len(d)

\* the heuristic with the test for an even length before the test for a
\* multiple of four
guess_payload_type_even_first(d) ==
    IF d = <<>> THEN "Empty"
    ELSE IF looks_ascii(d) THEN "ASCII"
    ELSE IF Len(d) % 2 = 0 THEN "UInt16 array"
    ELSE IF Len(d) % 4 = 0 THEN "Float array"
    ELSE "Binary"

\* guess_payload_type(data) of tools/gui/i3d_explorer.py; struct.unpack of
\* data[:4] cannot raise when the length is a positive multiple of four
guess_payload_type(d) ==
    IF d = <<>> THEN "Empty"
    ELSE IF looks_ascii(d) THEN "ASCII"
    ELSE IF Len(d) % 4 = 0 THEN "Float array"
    ELSE IF Len(d) % 2 = 0 THEN "UInt16 array"
    ELSE "Binary"

\* the recognisers of experimental/i3d_explorer.py; its looks_ascii is the
\* one above, and no struct.unpack in them can raise once the length fits
looks_vector3(d) == Len(d) = 12

looks_matrix3x4(d) == Len(d) = 48

looks_float_array(d) == Len(d) >= 4 /\ Len(d) % 4 = 0

looks_u16_array(d) == Len(d) >= 2 /\ Len(d) % 2 = 0

\* guess_payload_type(data) of experimental/i3d_explorer.py
xp_guess_payload_type(d) ==
    IF d = <<>> THEN "Empty"
    ELSE IF looks_ascii(d) THEN "ASCII"
    ELSE IF looks_matrix3x4(d) THEN "Matrix3x4"
    ELSE IF looks_vector3(d) THEN "Vector3"
    ELSE IF looks_float_array(d) THEN "Float array"
    ELSE IF looks_u16_array(d) THEN "UInt16 array"
    ELSE "Binary"

\* the value setdefault stores for an id seen for the first time
new_entry ==
    [count |-> 0, parents |-> {}, sizes |-> <<>>, samples |-> <<>>,
     guesses |-> <<>>]

\* register_unknown without the test of len(e["samples"]) and without the
\* cut of the payload
register_unknown_all_samples(uc, cid, parent_cid, payload, guess) ==
    LET e == IF cid \in DOMAIN uc THEN uc[cid] ELSE new_entry
        e2 == [count |-> e.count + 1,
               parents |-> e.parents \cup {parent_cid},
               sizes |-> Append(e.sizes, Len(payload)),
               guesses |-> Append(e.guesses, guess),
               samples |-> Append(e.samples, payload)]
    IN  [c \in DOMAIN uc \cup {cid} |-> IF c = cid THEN e2 ELSE uc[c]]

\* register_unknown(cid, parent_cid, payload, guess) on the dict uc
register_unknown(uc, cid, parent_cid, payload, guess) ==
    LET e == IF cid \in DOMAIN uc THEN uc[cid] ELSE new_entry
        e2 == [count |-> e.count + 1,
               parents |-> e.parents \cup {parent_cid},
               sizes |-> Append(e.sizes, Len(payload)),
               guesses |-> Append(e.guesses, guess),
               samples |-> IF Len(e.samples) < 3
                           THEN Append(e.samples, BytesAt(payload, 0, 128))
                           ELSE e.samples]
    IN  [c \in DOMAIN uc \cup {cid} |-> IF c = cid THEN e2 ELSE uc[c]]

\* walk(n) of populate_runtime_unknowns, and its loop over n.children; the
\* dict is passed along
RECURSIVE walk(_, _, _)
RECURSIVE walk_children(_, _, _)
walk(t, n, uc) ==
    LET node == t[n]
        visited ==
            IF node.cid /= \HFFFF /\ node.cid \notin CHUNK_NAMES_3DS
                   /\ node.cid \notin CHUNK_NAMES_I3D
            THEN register_unknown(uc, node.cid,
                     IF node.parent /= None THEN t[node.parent].cid ELSE None,
                     Payload(node), guess_payload_type(Payload(node)))
            ELSE uc
    IN  walk_children(t, node.children, visited)

walk_children(t, cs, uc) ==
    IF cs = <<>> THEN uc
    ELSE walk_children(t, Tail(cs), walk(t, Head(cs), uc))

\* a clear() that leaves the entries in the dict
clear_kept(uc) == uc

\* unknown_chunks.clear()
clear(uc) == <<>>

\* populate_runtime_unknowns(root, data) on the dict uc: uc.clear(), then
\* walk(root)
populate_runtime_unknowns(uc, t) == walk(t, 1, clear(uc))

----------------------------------------------------------------------------
(* The explorer window: a file is loaded and parsed, tree items are        *)
(* selected and the unknown-chunk report is opened.                        *)

MaxCount == 3      \* the declared count of a generated list chunk
MaxTail == 25      \* the bytes that follow the count in such a chunk
MaxPayload == 48   \* the payload length of a generated unknown chunk
MaxChunks == 3     \* the chunks of a generated sequence of empty chunks
MaxReports == 3    \* the unknown-chunk report is opened at most this often
MaxLoads == 2      \* at most this many files are loaded, one after the other

Zeros(n) == [k \in 1..n |-> 0]

\* a chunk whose declared length is that of its header and payload
Chunk(cid, payload) == Hdr(cid, 6 + Len(payload)) \o payload

ListIds == { \H4110, \H4120, \H4140 }

\* a list chunk: no count, a count followed by whole and partial records,
\* and 21 whole 12-byte records
ListBuffers ==
    { Chunk(c, <<n, 0>> \o Zeros(k)) : c \in ListIds, n \in 0..MaxCount, k \in 0..MaxTail }
        \cup { Chunk(c, Zeros(k)) : c \in ListIds, k \in 0..1 }
        \cup { Chunk(c, <<21, 0>> \o Zeros(252)) : c \in ListIds }

\* the ids with a branch of decode that reads one fixed-size value
NumericIds ==
    { \H0002, \H0010, \H0011, \H0012, \H0013, \H0030, \H0031, \H0100,
      \H4160, \HA100, \HA353, \HB030 }

NumericBuffers ==
    { Chunk(c, Zeros(k)) : c \in NumericIds, k \in {0, 1, 2, 3, 4, 12, 48} }

ColorIds == { \HA010, \HA020, \HA030 }

PctIds == { \HA040, \HA041, \HA050, \HA084 }

\* the float 1.0 and the float 0.5, little-endian
One == <<0, 0, 128, 63>>

Half == <<0, 0, 0, 63>>

\* nothing, or one value-bearing chunk
ValueChunks ==
    { <<>>,
      Chunk(\H0010, One \o Half \o Zeros(4)), Chunk(\H0011, <<1, 2, 3>>),
      Chunk(\H0011, <<1, 2>>), Chunk(\H0012, <<1, 2, 3>>),
      Chunk(\H0013, One \o Half \o Zeros(4)),
      Chunk(\H0030, <<50, 0>>), Chunk(\H0031, Half) }

\* a material (0xAFFF) holding a color or percentage chunk with a value
\* chunk before it, after it or as its payload
MaterialBuffers ==
    { Chunk(\HAFFF, Chunk(m, <<>>) \o v) : m \in ColorIds \cup PctIds, v \in ValueChunks }
        \cup { Chunk(\HAFFF, v \o Chunk(m, <<>>)) : m \in ColorIds \cup PctIds, v \in ValueChunks }
        \cup { Chunk(\HAFFF, Chunk(m, v)) : m \in ColorIds \cup PctIds, v \in ValueChunks }

\* a track header with the key count n
TrackHeader(n) == Zeros(4) \o <<n, 0, 0, 0>>

\* a key header with the frame number f and no key flags
KeyHeader(f) == <<f, 0, 0, 0, 0, 0>>

\* one whole key of a track: a key header and a value, for the note track
\* the text "a" and its terminator
Key(cid, f) ==
    KeyHeader(f) \o (IF cid = \HB02A THEN <<97, 0>> ELSE Zeros(value_size(cid)))

\* n whole keys with the frame numbers 1..n
RECURSIVE Keys(_, _)
Keys(cid, n) == IF n = 0 THEN <<>> ELSE Keys(cid, n - 1) \o Key(cid, n)

\* track payloads: nothing; one or two whole keys; a whole key followed by
\* four bytes, which is less than a key header; a key header without its
\* value; and the header alone
TrackPayloads(cid) ==
    { <<>>, TrackHeader(1) \o Keys(cid, 1), TrackHeader(2) \o Keys(cid, 2),
      TrackHeader(2) \o Keys(cid, 1) \o Zeros(4),
      TrackHeader(1) \o KeyHeader(1), TrackHeader(1) }

\* the tracks, and a hide track with 51 keys
TrackBuffers ==
    { Chunk(c, p) : c \in TrackIds, p \in UNION { TrackPayloads(t) : t \in TrackIds } }
        \cup { Chunk(\HB029, TrackHeader(51) \o Keys(\HB029, 51)) }

\* a UV face record of three 16-bit indices
Face123 == <<1, 0, 2, 0, 3, 0>>

\* a map channel payload: channel 0, the declared UV count c, r UV records
\* of which the last starts with the bytes 2, 0, then the face count 1 and
\* one face
MapChannel(c, r) ==
    Zeros(4) \o <<c, 0>> \o Zeros(8 * (r - 1)) \o <<2, 0>> \o Zeros(6)
        \o <<1, 0>> \o Face123

\* map channels with as many records as declared, one of them with more
\* records than are previewed, and one with the header only
MapChannelBuffers ==
    { Chunk(\H4200, MapChannel(c, c)) : c \in {1, 2, 10, 11} }
        \cup { Chunk(\H4200, Zeros(6)) }

\* an unknown chunk whose payload is g letters followed by zero bytes, or
\* one byte at an edge of the printable range
GuessBuffers ==
    UNION { { Chunk(\H1234, [k \in 1..n |-> IF k <= g THEN 65 ELSE 0]) : g \in 0..n } :
               n \in 0..MaxPayload }
        \cup { Chunk(\H1234, <<b>>) : b \in {9, 10, 11, 13, 31, 32, 126, 127, 255} }

\* sequences of chunks with ids in and out of the tables, at top level and
\* inside a 0x4D4D chunk
ReportItems ==
    { Chunk(\HFFFF, <<>>), Chunk(\H1234, <<>>), Chunk(\H1234, <<97, 98>>),
      Chunk(\H4200, <<>>) }

ReportBuffers ==
    LET seqs == { Concat(s) : s \in UNION { [1..n -> ReportItems] : n \in 1..MaxChunks } }
    IN  seqs \cup { Chunk(MAIN, b) : b \in seqs }

\* a vertex list with the count 2 and 8 more bytes, followed by a header
\* whose declared length runs past the end of the buffer
TruncatedBuffer == Chunk(\H4110, <<2, 0>> \o Zeros(8)) \o Hdr(\H4120, 30)

UiBuffers ==
    ListBuffers \cup NumericBuffers \cup MaterialBuffers \cup GuessBuffers
        \cup ReportBuffers \cup MapChannelBuffers \cup TrackBuffers
        \cup {VersionBuffer, ShortVersionBuffer, BoxBuffer, NoZeroBuffer,
              TruncatedBuffer}

\* the window is constructed and a file is chosen
UiInit ==
    /\ data \in UiBuffers
    /\ nodes = <<>>
    /\ stack = <<>>
    /\ ret = NoRet
    /\ status = "ready"
    /\ run = 0
    /\ returned = <<>>
    /\ selected = None
    /\ info_guess = ""
    /\ xp_info_guess = ""
    /\ interpret_view = ""
    /\ slot_error = ""
    /\ xp_interpret_view = ""
    /\ xp_slot_error = ""
    /\ unknown_chunks = <<>>
    /\ handed = <<>>
    /\ loads = 1
    /\ enum_name = <<>>
    /\ friendly = ""

\* on_tree_select: an item of the tree is selected.  The guess is put into
\* info_view before decode is called; when decode raises, the exception
\* leaves the slot and interpret_view keeps its text
SelectItem ==
    /\ status = "done"
    /\ \E i \in {n \in DOMAIN nodes : nodes[n].parent /= None} :
           LET payload == Payload(nodes[i])
               text == decode(nodes, i, payload)
               xp_text == xp_decode(nodes[i].cid, payload)
           IN  /\ selected' = i
               /\ info_guess' = guess_payload_type(payload)
               /\ xp_info_guess' = xp_guess_payload_type(payload)
               /\ IF text = struct_error
                  THEN /\ slot_error' = struct_error
                       /\ UNCHANGED interpret_view
                  ELSE /\ slot_error' = ""
                       /\ interpret_view' = text
               /\ IF xp_text = type_error
                  THEN /\ xp_slot_error' = type_error
                       /\ UNCHANGED xp_interpret_view
                  ELSE /\ xp_slot_error' = ""
                       /\ xp_interpret_view' = xp_text
    /\ UNCHANGED <<data, nodes, stack, ret, status, run, returned, unknown_chunks,
                   handed, loads, names>>

\* the one dict object of the module, which populate_runtime_unknowns
\* clears and fills in place
GlobalDict == "unknown_chunks"

\* the entries a holder of a reference to a dict sees now
Deref(ref) == IF ref = GlobalDict THEN unknown_chunks ELSE <<>>

\* show_discovery_dialog: the report is built for the tree on display and
\* the module's dict itself is handed to the dialog; seen keeps the entries
\* it had at that moment and load the file it was built for
ShowDiscovery ==
    /\ status = "done"
    /\ Len(handed) < MaxReports
    /\ unknown_chunks' = populate_runtime_unknowns(unknown_chunks, nodes)
    /\ handed' = Append(handed, [ref |-> GlobalDict, seen |-> unknown_chunks',
                                 load |-> loads])
    /\ UNCHANGED <<data, nodes, stack, ret, status, run, returned, selected,
                   info_guess, xp_info_guess, interpret_view, slot_error,
                   xp_interpret_view, xp_slot_error, loads, names>>

UiNext ==
    \/ Next
    \/ SelectItem
    \/ ShowDiscovery

UiSpec == UiInit /\ [][UiNext]_vars

----------------------------------------------------------------------------
(* The explorer with one file loaded after the other.                      *)

\* an unknown chunk "abc" inside 0x4D4D, inside 0x3D3D and inside 0x4100
ThreeParentsBuffer ==
    Chunk(MAIN, Chunk(\H1234, <<97, 98, 99>>)
                  \o Chunk(\H3D3D, Chunk(\H1234, <<97, 98, 99>>)
                                     \o Chunk(TRI_MESH, Chunk(\H1234, <<97, 98, 99>>))))

\* four unknown chunks of one id at top level, the first with a payload of
\* 130 bytes
SamplesBuffer ==
    Chunk(\H1234, Zeros(130)) \o Chunk(\H1234, <<97>>) \o Chunk(\H1234, <<>>)
        \o Chunk(\H1234, <<98>>)

\* the files loaded first
ReportFiles ==
    ReportBuffers
        \cup {ThreeParentsBuffer, SamplesBuffer, BoxBuffer, TruncatedBuffer}

\* the files loaded after another file
SecondFiles ==
    { Chunk(\H1234, <<>>), Chunk(\H5678, <<97>>), Chunk(\H0002, <<>>),
      ThreeParentsBuffer }

ReportInit ==
    /\ data \in ReportFiles
    /\ nodes = <<>>
    /\ stack = <<>>
    /\ ret = NoRet
    /\ status = "ready"
    /\ run = 0
    /\ returned = <<>>
    /\ selected = None
    /\ info_guess = ""
    /\ xp_info_guess = ""
    /\ interpret_view = ""
    /\ slot_error = ""
    /\ xp_interpret_view = ""
    /\ xp_slot_error = ""
    /\ unknown_chunks = <<>>
    /\ handed = <<>>
    /\ loads = 1
    /\ enum_name = <<>>
    /\ friendly = ""

\* load_file: another file is read and a parser is constructed for it; the
\* tree and the three views are cleared, the module's dict is not touched
OpenFile ==
    /\ status = "done"
    /\ loads < MaxLoads
    /\ data' \in SecondFiles
    /\ nodes' = <<>>
    /\ stack' = <<>>
    /\ ret' = NoRet
    /\ status' = "ready"
    /\ run' = 0
    /\ returned' = <<>>
    /\ selected' = None
    /\ info_guess' = ""
    /\ xp_info_guess' = ""
    /\ interpret_view' = ""
    /\ slot_error' = ""
    /\ xp_interpret_view' = ""
    /\ xp_slot_error' = ""
    /\ loads' = loads + 1
    /\ UNCHANGED <<unknown_chunks, handed, names>>

ReportNext ==
    \/ Next
    \/ ShowDiscovery
    \/ OpenFile

ReportSpec == ReportInit /\ [][ReportNext]_vars

----------------------------------------------------------------------------
(* friendly_name of the experimental explorer.  A Python string is a       *)
(* sequence of one-character strings; the result is kept as a text.        *)

MaxParts == 2    \* the number of underscore-separated words of a generated name

Uppers ==
    << "A", "B", "C", "D", "E", "F", "G", "H", "I", "J", "K", "L", "M",
       "N", "O", "P", "Q", "R", "S", "T", "U", "V", "W", "X", "Y", "Z" >>

Lowers ==
    << "a", "b", "c", "d", "e", "f", "g", "h", "i", "j", "k", "l", "m",
       "n", "o", "p", "q", "r", "s", "t", "u", "v", "w", "x", "y", "z" >>

is_upper_char(c) == \E i \in DOMAIN Uppers : Uppers[i] = c

is_lower_char(c) == \E i \in DOMAIN Lowers : Lowers[i] = c

\* c.upper() and c.lower() of one character
upper(c) ==
    IF is_lower_char(c) THEN Uppers[CHOOSE i \in DOMAIN Lowers : Lowers[i] = c]
    ELSE c

lower(c) ==
    IF is_upper_char(c) THEN Lowers[CHOOSE i \in DOMAIN Uppers : Uppers[i] = c]
    ELSE c

\* the text of a sequence of characters
RECURSIVE Str(_)
Str(s) == IF s = <<>> THEN "" ELSE Head(s) \o Str(Tail(s))

\* s.strip() where the only whitespace is the space
RECURSIVE lstrip(_)
lstrip(s) == IF s /= <<>> /\ Head(s) = " " THEN lstrip(Tail(s)) ELSE s

RECURSIVE rstrip(_)
rstrip(s) ==
    IF s /= <<>> /\ s[Len(s)] = " " THEN rstrip(SubSeq(s, 1, Len(s) - 1)) ELSE s

strip(s) == rstrip(lstrip(s))

\* name.startswith(p)
startswith(name, p) == Len(name) >= Len(p) /\ SubSeq(name, 1, Len(p)) = p

\* name[len(p):] if name.startswith(p), name otherwise
without_prefix(name, p) ==
    IF startswith(name, p) THEN SubSeq(name, Len(p) + 1, Len(name)) ELSE name

CHUNK_ == <<"C", "H", "U", "N", "K", "_">>

MAT_ == <<"M", "A", "T", "_">>

NURBS_ == <<"N", "U", "R", "B", "S", "_">>

\* for p in ("CHUNK_", "MAT_", "NURBS_"): one prefix after the other
remove_prefixes(name) ==
    without_prefix(without_prefix(without_prefix(name, CHUNK_), MAT_), NURBS_)

\* name.split("_")
RECURSIVE split(_, _)
split(s, cur) ==
    IF s = <<>> THEN <<cur>>
    ELSE IF Head(s) = "_" THEN <<cur>> \o split(Tail(s), <<>>)
    ELSE split(Tail(s), Append(cur, Head(s)))

\* p.isupper(): a cased character, and none in lower case
isupper(p) ==
    /\ \E i \in DOMAIN p : is_upper_char(p[i])
    /\ \A i \in DOMAIN p : ~is_lower_char(p[i])

\* p.capitalize()
capitalize(p) ==
    [i \in DOMAIN p |-> IF i = 1 THEN upper(p[i]) ELSE lower(p[i])]

\* " ".join(out)
RECURSIVE join_space(_)
join_space(out) ==
    IF out = <<>> THEN <<>>
    ELSE IF Len(out) = 1 THEN out[1]
    ELSE out[1] \o <<" ">> \o join_space(Tail(out))

friendly_name(name) ==
    LET parts == split(remove_prefixes(strip(name)), <<>>)
    IN  Str(join_space([i \in DOMAIN parts |->
                           IF isupper(parts[i]) THEN parts[i]
                           ELSE capitalize(parts[i])]))

\* the words names are made of
Words ==
    { <<"V", "I", "E", "W", "P", "O", "R", "T">>, <<"L", "A", "Y", "O", "U", "T">>,
      <<"R", "E", "F", "B", "L", "U", "R">>, <<"N", "U", "R", "B", "S">>,
      <<"C", "V", "S">>, <<"M", "A", "P">>, <<"C", "H", "A", "N", "N", "E", "L">>,
      <<"M", "A", "T">>, <<"M", "e", "s", "h">>, <<"t", "r", "i", "m">>,
      <<"m", "E", "S", "H">>, <<"3", "D">>, <<>> }

\* words joined with underscores
RECURSIVE Underscored(_)
Underscored(ws) ==
    IF Len(ws) = 1 THEN ws[1] ELSE ws[1] \o <<"_">> \o Underscored(Tail(ws))

\* symbolic names with and without a prefix, some with blanks around them
Names ==
    LET bodies == { Underscored(ws) : ws \in UNION { [1..n -> Words] : n \in 1..MaxParts } }
    IN  { p \o b : p \in {<<>>, CHUNK_, MAT_}, b \in bodies }
            \cup { <<" ">> \o CHUNK_ \o b \o <<" ">> : b \in bodies }

\* the symbolic names the documentation of friendly_name lists, and the raw
\* entry of CHUNK_NAMES_I3D for 0x4200
VIEWPORT_LAYOUT ==
    <<"V", "I", "E", "W", "P", "O", "R", "T", "_", "L", "A", "Y", "O", "U", "T">>

MAT_REFBLUR == <<"M", "A", "T", "_", "R", "E", "F", "B", "L", "U", "R">>

CHUNK_NURBS_CVS ==
    <<"C", "H", "U", "N", "K", "_", "N", "U", "R", "B", "S", "_", "C", "V", "S">>

CHUNK_MAP_CHANNEL ==
    <<"C", "H", "U", "N", "K", "_", "M", "A", "P", "_",
      "C", "H", "A", "N", "N", "E", "L">>

\* the module is about to call friendly_name for a symbolic name
NameInit ==
    /\ data = <<>>
    /\ nodes = <<>>
    /\ stack = <<>>
    /\ ret = NoRet
    /\ status = "ready"
    /\ run = 0
    /\ returned = <<>>
    /\ selected = None
    /\ info_guess = ""
    /\ xp_info_guess = ""
    /\ interpret_view = ""
    /\ slot_error = ""
    /\ xp_interpret_view = ""
    /\ xp_slot_error = ""
    /\ unknown_chunks = <<>>
    /\ handed = <<>>
    /\ loads = 1
    /\ enum_name \in Names
    /\ friendly = ""

\* CHUNK_NAMES_I3D[cid] = friendly_name(raw_name)
FriendlyName ==
    /\ friendly' = friendly_name(enum_name)
    /\ UNCHANGED <<data, nodes, stack, ret, status, run, returned, ui, enum_name>>

NameNext == FriendlyName

NameSpec == NameInit /\ [][NameNext]_vars

----------------------------------------------------------------------------
(* Properties of the trees returned by parse().                            *)

\* the node indices of a tree, and those below the synthetic root
NodeIds(t) == DOMAIN t

NonRoot(t) == {i \in DOMAIN t : t[i].parent /= None}

SpanEnd(n) == n.start + n.size

\* the byte span of node c lies inside [lo, hi)
SpanInside(c, lo, hi) == lo <= c.start /\ SpanEnd(c) <= hi

\* C1 as claimed: every node that has a parent, the top-level children of
\* the synthetic root included, has its byte span inside its parent's payload
\* span [parent.start + 6, parent.start + parent.size).
C1_AllChildrenInsideParentPayload ==
    \A k \in DOMAIN returned :
        \A i \in NonRoot(returned[k]) :
            LET c == returned[k][i]
                p == returned[k][c.parent]
            IN  SpanInside(c, payload_start(p), payload_end(p))

\* C1 as amended: every node whose parent is a chunk read from the buffer
\* has its byte span inside that parent's payload span; a top-level child
\* has its byte span inside the root's whole span [0, len(buffer)), and the
\* first top-level child starts at offset 0, before the root's payload_start.
C1_ChildrenInsideParent ==
    \A k \in DOMAIN returned :
        \A i \in NonRoot(returned[k]) :
            LET c == returned[k][i]
                p == returned[k][c.parent]
            IN  IF p.parent = None
                THEN /\ SpanInside(c, p.start, SpanEnd(p))
                     /\ p.start = 0 /\ SpanEnd(p) = Len(data)
                     /\ (p.children[1] = i => c.start = 0)
                ELSE SpanInside(c, payload_start(p), payload_end(p))

\* a returned tree with a top-level child that itself has a child
C1_Witness ==
    \E k \in DOMAIN returned :
        \E i \in NonRoot(returned[k]) :
            /\ returned[k][i].parent /= 1
            /\ returned[k][returned[k][i].parent].parent = 1

\* C4: the children of every node of a returned tree are pairwise
\* non-overlapping in byte span and strictly increasing in start, in the
\* order of the children list.
C4_SiblingsOrderedDisjoint ==
    \A k \in DOMAIN returned :
        \A i \in NodeIds(returned[k]) :
            LET ch == returned[k][i].children IN
            \A a, b \in DOMAIN ch :
                a < b =>
                    /\ returned[k][ch[a]].start < returned[k][ch[b]].start
                    /\ SpanEnd(returned[k][ch[a]]) <= returned[k][ch[b]].start

\* a returned tree in which a chunk read from the buffer has two children
C4_Witness ==
    \E k \in DOMAIN returned :
        \E i \in NonRoot(returned[k]) : Len(returned[k][i].children) >= 2

\* the container ids as the claim lists them
ClaimedContainers ==
    { \H4D4D, \H3D3D, \H4100, \HAFFF, \HA200, \HB000, \HB010 } \cup (\HB002 .. \HB007)

\* C5: a node of a returned tree has children only if it is the synthetic
\* root, its id is 0x4000, or its id is in the fixed container set; a node
\* with any other id has no children whatever its payload holds.
C5_OnlyContainersHaveChildren ==
    \A k \in DOMAIN returned :
        \A i \in NodeIds(returned[k]) :
            LET n == returned[k][i] IN
            n.children /= <<>> =>
                \/ n.parent = None
                \/ n.cid = \H4000
                \/ n.cid \in ClaimedContainers

\* a returned tree with a childless node of another id whose payload starts
\* with a well-formed chunk header
C5_Witness ==
    \E k \in DOMAIN returned :
        \E i \in NonRoot(returned[k]) :
            LET n == returned[k][i] IN
            /\ n.cid /= \H4000 /\ n.cid \notin ClaimedContainers
            /\ n.children = <<>>
            /\ payload_start(n) + 6 <= payload_end(n)
            /\ u32(payload_start(n) + 2) >= 6
            /\ payload_start(n) + u32(payload_start(n) + 2) <= payload_end(n)

\* C7 as claimed: every node of a returned tree, the synthetic root
\* included, has size >= 6.
C7_EveryNodeSizeAtLeast6 ==
    \A k \in DOMAIN returned :
        \A i \in NodeIds(returned[k]) : returned[k][i].size >= 6

\* C7 as amended: every node of a returned tree other than the synthetic
\* root has size >= 6; the root's size is the buffer length, which is below
\* 6 for buffers shorter than 6 bytes.
C7_NonRootSizeAtLeast6 ==
    \A k \in DOMAIN returned :
        /\ \A i \in NonRoot(returned[k]) : returned[k][i].size >= 6
        /\ returned[k][1].size = Len(data)

\* a returned tree with a chunk in it
C7_Witness ==
    \E k \in DOMAIN returned : NonRoot(returned[k]) /= {}

----------------------------------------------------------------------------
(* Termination, failure handling, the named object, nesting depth.         *)

\* a step of a child-parsing loop after a call has returned: the cursor
\* advances strictly, or the loop stops
LoopProgress ==
    (status = "running" /\ Top.pc = "wait" /\ Len(stack') = Len(stack)) =>
        \/ Top'.pc = "return"
        \/ Top'.pc = "loop" /\ Top'.pos > Top.pos

\* C2: parse terminates for every buffer: every step of a child-parsing
\* loop (top level, container, named object) advances the cursor strictly
\* or stops the loop, and every parse() that has started returns.
C2_Terminates ==
    /\ [][LoopProgress]_vars
    /\ (status = "running") ~> (status = "done")

\* a parse that returned although its top-level loop advanced and then met
\* a header that failed
C2_Witness ==
    /\ status = "done"
    /\ Len(nodes[1].children) >= 1
    /\ LET last == nodes[nodes[1].children[Len(nodes[1].children)]] IN
        /\ SpanEnd(last) + 6 <= Len(data)
        /\ u32(SpanEnd(last) + 2) < 6

\* the header at cursor c of a scope ending at end is structurally valid
ValidHeader(c, end) ==
    /\ c + 6 <= end
    /\ u32(c + 2) >= 6
    /\ c + u32(c + 2) <= end

\* the chunks of a scope from cursor c up to the first invalid header, as
\* (id, start, size)
RECURSIVE ValidChain(_, _)
ValidChain(c, end) ==
    IF ValidHeader(c, end)
    THEN <<[cid |-> u16(c), start |-> c, size |-> u32(c + 2)]>>
             \o ValidChain(c + u32(c + 2), end)
    ELSE <<>>

\* the offset of the first zero byte of [a, b), or b if there is none
RECURSIVE FirstZero(_, _)
FirstZero(a, b) == IF a < b /\ Byte(a) /= 0 THEN FirstZero(a + 1, b) ELSE a

HasZero(a, b) == \E o \in a..(b - 1) : Byte(o) = 0

\* where the children of node n of a tree start and end: the whole buffer
\* for the root, past the name for a named object, the payload otherwise
ScopeStart(n) ==
    IF n.parent = None THEN 0
    ELSE IF n.cid = \H4000
    THEN IF HasZero(payload_start(n), payload_end(n))
         THEN FirstZero(payload_start(n), payload_end(n)) + 1
         ELSE payload_end(n)
    ELSE payload_start(n)

ScopeEnd(n) == IF n.parent = None THEN Len(data) ELSE payload_end(n)

IsScope(n) == n.parent = None \/ n.cid = \H4000 \/ n.cid \in ClaimedContainers

ChildTriples(t, n) ==
    [j \in DOMAIN n.children |->
        [cid |-> t[n.children[j]].cid, start |-> t[n.children[j]].start,
         size |-> t[n.children[j]].size]]

\* C3: when the header at the cursor of a scope is structurally invalid,
\* parse raises no error, creates no node for that header and adds no
\* further child to the scope, and the nodes created before are in the
\* returned tree unchanged: the children of every scope are exactly the
\* chunks from the start of the scope up to its first invalid header.
C3_ScopeStopsAtInvalidHeader ==
    /\ status /= "error"
    /\ \A k \in DOMAIN returned :
        \A i \in NodeIds(returned[k]) :
            LET n == returned[k][i] IN
            IsScope(n) =>
                ChildTriples(returned[k], n) = ValidChain(ScopeStart(n), ScopeEnd(n))

\* a returned tree whose root has a child, then a header of declared length
\* below 6, then a well-formed header that got no node
C3_Witness ==
    \E k \in DOMAIN returned :
        LET r == returned[k][1] IN
        /\ Len(r.children) >= 1
        /\ LET c == SpanEnd(returned[k][r.children[Len(r.children)]]) IN
            /\ c + 12 <= Len(data)
            /\ u32(c + 2) < 6
            /\ ValidHeader(c + 6, Len(data))
            /\ \A i \in NodeIds(returned[k]) : returned[k][i].start < c

\* C6: for a chunk with id 0x4000 child parsing starts one byte past the
\* first zero byte of the payload, no child is parsed when the payload
\* holds no zero byte, and no node lies in the name bytes; the payload
\* "Box01", zero byte, 6-byte chunk 0x4100 yields exactly one child, with
\* id 0x4100 and payload_size 0.
C6_NamedObjectSkipsName ==
    \A k \in DOMAIN returned :
        LET t == returned[k] IN
        /\ \A i \in NodeIds(t) :
            (t[i].parent /= None /\ t[i].cid = \H4000) =>
                LET ps == payload_start(t[i])
                    pe == payload_end(t[i])
                IN  IF HasZero(ps, pe)
                    THEN LET z == CHOOSE o \in ps..(pe - 1) :
                                    /\ Byte(o) = 0
                                    /\ \A q \in ps..(o - 1) : Byte(q) /= 0
                         IN  /\ \A j \in DOMAIN t[i].children :
                                    t[t[i].children[j]].start > z
                             /\ (t[i].children /= <<>> =>
                                    t[t[i].children[1]].start = z + 1)
                             /\ (t[i].children = <<>> => ~ValidHeader(z + 1, pe))
                    ELSE t[i].children = <<>>
        /\ data = BoxBuffer =>
            /\ t[1].children = <<2>>
            /\ t[2].cid = \H4000 /\ t[2].children = <<3>>
            /\ t[3].cid = \H4100 /\ payload_size(t[3]) = 0 /\ t[3].start = 12
            /\ Len(t) = 3

\* the tree returned for the "Box01" buffer
C6_Witness == data = BoxBuffer /\ returned /= <<>>

\* the depth the buffer lengths of the model would let a cap forbid: the
\* code has no cap, so k nested containers, 6k bytes, nest k deep
DepthCap == (MaxLen \div 6) - 1

\* C8: the depth of nested parse_chunk activations never exceeds a fixed
\* cap that is independent of the buffer length.
C8_DepthCapped == Depth <= DepthCap

\* C9: parsing the same buffer twice yields structurally identical trees:
\* the same node ids, starts, sizes, child order and nesting.
C9_Deterministic ==
    \A k \in DOMAIN returned : returned[k] = returned[1]

\* the second parse of a buffer with chunks in it has returned
C9_Witness == Len(returned) >= 2 /\ Len(returned[1]) >= 3

----------------------------------------------------------------------------
(* Scenario A: the version chunk.                                          *)

\* the tree is a root with the one child 0x4D4D, which has the one child
\* 0x0002
VersionTreeShape(t) ==
    /\ Len(t) = 3
    /\ t[1].children = <<2>> /\ t[2].cid = \H4D4D /\ t[2].start = 0
    /\ t[2].children = <<3>> /\ t[3].cid = \H0002 /\ t[3].start = 6
    /\ t[3].children = <<>>

\* C10 as claimed: for the 0x4D4D chunk of declared length 12 holding a
\* 0x0002 chunk of declared length 6, with the 16-bit value 3 as payload,
\* the tree is root - 0x4D4D - 0x0002 and decode of the 0x0002 node returns
\* the version text for 3.
C10_VersionDecodedLength6 ==
    \A k \in DOMAIN returned :
        data = ShortVersionBuffer =>
            /\ VersionTreeShape(returned[k])
            /\ decode(returned[k], 3, Payload(returned[k][3])) = "3DS Version: 3"

\* C10 as amended: with the declared lengths 14 and 8, which put the two
\* bytes of the value inside the 0x0002 chunk, the tree is root - 0x4D4D -
\* 0x0002 and decode of the 0x0002 node returns "3DS Version: 3"; with the
\* declared lengths 12 and 6 the tree has the same shape, the 0x0002 node
\* has an empty payload and decode returns the no-decoder text.
C10_VersionDecoded ==
    \A k \in DOMAIN returned :
        /\ data = VersionBuffer =>
            /\ VersionTreeShape(returned[k])
            /\ returned[k][2].size = 14 /\ returned[k][3].size = 8
            /\ decode(returned[k], 3, Payload(returned[k][3])) = "3DS Version: 3"
        /\ data = ShortVersionBuffer =>
            /\ VersionTreeShape(returned[k])
            /\ returned[k][2].size = 12 /\ returned[k][3].size = 6
            /\ Payload(returned[k][3]) = <<>>
            /\ decode(returned[k], 3, Payload(returned[k][3]))
                   = "No decoder for 0x0002 (payload 0 bytes)"

\* the tree returned for the buffer with the declared lengths 14 and 8
C10_Witness == data = VersionBuffer /\ returned /= <<>>

----------------------------------------------------------------------------
(* Properties of the explorer window.                                      *)

\* an item of the tree on display is selected
Shown == status = "done" /\ selected /= None

\* the node of the selected item and the payload handed to decode for it
SelNode == nodes[selected]

SelPayload == Payload(SelNode)

\* C11 as claimed: decode is total; for every node of a parsed tree, every
\* chunk id and every payload it returns a text and raises no error, so no
\* selection of an item ends with an exception, list chunks whose declared
\* count exceeds the records present included.
C11_DecodeNeverRaises ==
    /\ slot_error = ""
    /\ Shown => decode(nodes, selected, SelPayload) /= struct_error

\* the payload length the branch of a numeric id tests for before it reads
needed_len(cid) ==
    IF cid \in {\H0010, \H0013} THEN 12
    ELSE IF cid \in {\H0011, \H0012} THEN 3
    ELSE IF cid \in {\H0031, \H0100, \HA353} THEN 4
    ELSE IF cid = \H4160 THEN 48
    ELSE 2

\* the selected node has a numeric id and a payload too short for it
ShortNumericShown ==
    /\ Shown
    /\ SelNode.cid \in NumericIds
    /\ Len(SelPayload) < needed_len(SelNode.cid)

\* C12 as claimed: for every id with a dedicated numeric handler, when the
\* payload is shorter than the structure the handler needs, decode returns
\* an 'Invalid <name>' message for that node: it raises nothing and the
\* text is neither the generic no-decoder fallback nor empty.
C12_ShortPayloadIsInvalidMessage ==
    ShortNumericShown =>
        /\ slot_error = ""
        /\ interpret_view /= ""
        /\ interpret_view /= no_decoder(SelNode.cid, SelPayload)

\* the record size of a list chunk
stride(cid) == IF cid = \H4110 THEN 12 ELSE 8

\* out of the list branch of an id
list_lines(cid, d) ==
    IF cid = \H4110 THEN vertex_list(d)
    ELSE IF cid = \H4120 THEN face_list(d)
    ELSE uv_list(d)

\* the selected node is a list chunk whose payload holds a count
ListShown == Shown /\ SelNode.cid \in ListIds /\ Len(SelPayload) >= 2

\* min(c, K, floor((L - 2) / stride)) with the cap K = 20
WholeRecords(cid, d) ==
    Min(du16(d, 0), Min(20, (Len(d) - 2) \div stride(cid)))

\* C13 as claimed: for a vertex, face or UV list payload of length L >= 2
\* with declared count c, decode reports the count c and previews exactly
\* min(c, K, floor((L-2)/stride)) records, so that no previewed record uses
\* bytes outside the payload; a vertex list with c = 2 and 8 trailing bytes
\* previews zero vertices.
C13_ListPreviewInsidePayload ==
    ListShown =>
        LET out == list_lines(SelNode.cid, SelPayload)
        IN  /\ slot_error = ""
            /\ interpret_view = join(out)
            /\ Len(out) = 1 + WholeRecords(SelNode.cid, SelPayload)

\* a chunk with a color value: id 0x0010 or 0x0013 with three floats, or
\* id 0x0011 or 0x0012 with three bytes
HasColorValue(n) ==
    \/ n.cid \in {\H0010, \H0013} /\ Len(Payload(n)) >= 12
    \/ n.cid \in {\H0011, \H0012} /\ Len(Payload(n)) >= 3

\* a chunk with a percentage value: id 0x0030 with 16 bits or 0x0031 with
\* a float
HasPctValue(n) ==
    \/ n.cid = \H0030 /\ Len(Payload(n)) >= 2
    \/ n.cid = \H0031 /\ Len(Payload(n)) >= 4

\* the children of node i, and the other children of its parent
ChildrenOf(t, i) == {t[i].children[k] : k \in DOMAIN t[i].children}

SiblingsOf(t, i) == ChildrenOf(t, t[i].parent) \ {i}

\* C14 as claimed: for a material color node (0xA010, 0xA020, 0xA030)
\* decode returns the value of the first child with an id in {0x0010,
\* 0x0011, 0x0012, 0x0013} and a long enough payload; if there is none, the
\* value of the first sibling with an id in the same four; the default
\* string only if there is none either.  Checked here: with such a child or
\* sibling, the text is not the default string.
C14_ColorFromChildOrSibling ==
    (Shown /\ SelNode.cid \in ColorIds) =>
        ((\E c \in ChildrenOf(nodes, selected) \cup SiblingsOf(nodes, selected) :
              HasColorValue(nodes[c]))
            => /\ slot_error = ""
               /\ interpret_view /= color_default(color_name(SelNode.cid)))

\* C15 as claimed: for a percentage-valued material node (0xA040, 0xA041,
\* 0xA050, 0xA084) that has no value-bearing child but has a sibling under
\* the same parent with id 0x0030 or 0x0031 and a long enough payload,
\* decode returns that sibling's percentage, not the default string.
C15_PercentageFromSibling ==
    (Shown /\ SelNode.cid \in PctIds) =>
        (((\A c \in ChildrenOf(nodes, selected) : ~HasPctValue(nodes[c]))
            /\ (\E s \in SiblingsOf(nodes, selected) : HasPctValue(nodes[s])))
            => /\ slot_error = ""
               /\ interpret_view /= pct_default(pct_name(SelNode.cid)))

\* the selected node is an ambient color node without a value-bearing
\* child and without a value-bearing sibling
BareAmbientShown ==
    /\ Shown
    /\ SelNode.cid = \HA010
    /\ \A c \in ChildrenOf(nodes, selected) \cup SiblingsOf(nodes, selected) :
           ~HasColorValue(nodes[c])

\* C16: for an ambient color node (0xA010) of a parsed tree that has no
\* value-bearing child and no value-bearing sibling under its parent,
\* decode returns the fixed default-value string: no error is raised and
\* the text is not empty.
C16_AmbientDefault ==
    BareAmbientShown =>
        /\ slot_error = ""
        /\ interpret_view = "Ambient Color: (not set) [default: (1.0, 1.0, 1.0)]"
        /\ interpret_view /= ""
        /\ interpret_view = decode(nodes, selected, SelPayload)

\* an ambient color node whose only sibling is an RGB chunk with two bytes,
\* one too few, is selected
C16_Witness ==
    /\ BareAmbientShown
    /\ data = Chunk(\HAFFF, Chunk(\HA010, <<>>) \o Chunk(\H0011, <<1, 2>>))

----------------------------------------------------------------------------
(* Properties of the payload heuristic, on the payload of the selected     *)
(* item.                                                                   *)

Labels ==
    {"Empty", "ASCII", "Matrix3x4", "Vector3", "Float array", "UInt16 array",
     "Binary"}

\* the label the length rules give to a non-ASCII payload of length n
LengthLabel(n) ==
    IF n > 0 /\ n % 4 = 0 THEN "Float array"
    ELSE IF n % 2 = 0 THEN "UInt16 array"
    ELSE "Binary"

\* C17: guess_payload_type is total and single-valued: for every byte slice
\* it returns exactly one of the seven labels and raises no error; it
\* returns Empty exactly for the empty slice, and for a non-ASCII slice
\* whose length is neither 12 nor 48 it returns Float array when the length
\* is a positive multiple of 4, else UInt16 array when the length is even,
\* else Binary.  Both variants of the heuristic are checked.
C17_GuessTotal ==
    Shown =>
        /\ info_guess = guess_payload_type(SelPayload)
        /\ xp_info_guess = xp_guess_payload_type(SelPayload)
        /\ \A g \in {info_guess, xp_info_guess} :
               /\ g \in Labels
               /\ g = "Empty" <=> SelPayload = <<>>
               /\ (g /= "ASCII" /\ SelPayload /= <<>>
                       /\ Len(SelPayload) \notin {12, 48})
                      => g = LengthLabel(Len(SelPayload))

\* a payload of 8 bytes, 2 of them letters, has been labelled Float array
\* by both variants
C17_Witness ==
    /\ Shown
    /\ data = Chunk(\H1234, <<65, 65, 0, 0, 0, 0, 0, 0>>)
    /\ info_guess = "Float array"
    /\ xp_info_guess = "Float array"

\* the bytes of p that are printable ASCII (32..126) or tab, LF or CR
PrintableCount(p) ==
    Cardinality({k \in DOMAIN p : p[k] \in (32..126) \cup {9, 10, 13}})

C19_ExactLengthLabels ==
    Shown =>
        \A g \in {info_guess, xp_info_guess} :
            /\ (Len(SelPayload) = 48 /\ g /= "ASCII") => g = "Matrix3x4"
            /\ (Len(SelPayload) = 12 /\ g /= "ASCII") => g = "Vector3"

----------------------------------------------------------------------------
(* Properties of the unknown-chunk report.                                 *)

\* the nodes of tree t below the synthetic root, and those with id x
ReadNodes(t) == {i \in DOMAIN t : t[i].parent /= None}

Occurrences(t, x) == {i \in ReadNodes(t) : t[i].cid = x}

\* the ids of the nodes read from the buffer that are in neither table
UnknownIds(t) ==
    {t[i].cid : i \in ReadNodes(t)} \ (CHUNK_NAMES_3DS \cup CHUNK_NAMES_I3D)

\* a report has been built for the tree on display and holds an entry
ReportShown == status = "done" /\ unknown_chunks /= <<>>

\* C20 as claimed: after an unknown-chunk report is built for a tree, the
\* report has an entry for id X if and only if X is absent from both chunk
\* tables and at least one non-root node of the tree has id X, and the
\* entry's count is the number of non-root nodes with id X, also for a
\* chunk read from the buffer whose id is the root's sentinel 0xFFFF.
C20_ReportEntriesAndCounts ==
    ReportShown =>
        /\ DOMAIN unknown_chunks = UnknownIds(nodes)
        /\ \A x \in DOMAIN unknown_chunks :
               unknown_chunks[x].count = Cardinality(Occurrences(nodes, x))

----------------------------------------------------------------------------
(* Properties of the report when files are loaded one after the other.     *)

\* the report in unknown_chunks was built for the tree on display
CurrentReport ==
    /\ status = "done"
    /\ handed /= <<>>
    /\ handed[Len(handed)].load = loads

\* the occurrences of id x that are not direct children of the root
NestedOccurrences(t, x) == {i \in Occurrences(t, x) : t[t[i].parent].parent /= None}

\* C21 as claimed: the parent set of a report entry holds exactly the ids
\* of the immediate parents of that id's occurrences, an occurrence at top
\* level being recorded as none or not at all and never as the root's
\* sentinel id 0xFFFF; three occurrences under three distinct parents give
\* three distinct recorded parents.
C21_ParentsOfOccurrences ==
    CurrentReport =>
        \A x \in DOMAIN unknown_chunks :
            /\ ROOT_ID \notin unknown_chunks[x].parents
            /\ unknown_chunks[x].parents \ {None}
                   = {nodes[nodes[i].parent].cid : i \in NestedOccurrences(nodes, x)}

\* the nodes of the subtree of node n, depth first, children left to right
RECURSIVE Preorder(_, _)
RECURSIVE PreorderAll(_, _)
Preorder(t, n) == <<n>> \o PreorderAll(t, t[n].children)

PreorderAll(t, cs) ==
    IF cs = <<>> THEN <<>> ELSE Preorder(t, Head(cs)) \o PreorderAll(t, Tail(cs))

\* the occurrences of id x in that order
RECURSIVE Keep(_, _, _)
Keep(t, x, ns) ==
    IF ns = <<>> THEN <<>>
    ELSE IF t[Head(ns)].cid = x /\ t[Head(ns)].parent /= None
    THEN <<Head(ns)>> \o Keep(t, x, Tail(ns))
    ELSE Keep(t, x, Tail(ns))

OccurrenceSeq(t, x) == Keep(t, x, Preorder(t, 1))

\* the first 128 bytes of a payload
Cut128(p) == IF Len(p) <= 128 THEN p ELSE SubSeq(p, 1, 128)

\* C22: in every report entry, sizes and guesses each have exactly count
\* elements, the i-th of each being the payload length and the heuristic
\* label of the i-th occurrence in depth-first left-to-right order; samples
\* holds the payloads of the first min(count, 3) occurrences, each cut to
\* at most 128 bytes.
C22_EntryLists ==
    CurrentReport =>
        \A x \in DOMAIN unknown_chunks :
            LET e == unknown_chunks[x]
                occ == OccurrenceSeq(nodes, x)
            IN  /\ e.count = Len(occ)
                /\ Len(e.sizes) = e.count
                /\ Len(e.guesses) = e.count
                /\ \A k \in 1..e.count :
                       /\ e.sizes[k] = Len(Payload(nodes[occ[k]]))
                       /\ e.guesses[k] = guess_payload_type(Payload(nodes[occ[k]]))
                /\ Len(e.samples) = Min(e.count, 3)
                /\ \A k \in 1..Len(e.samples) :
                       /\ e.samples[k] = Cut128(Payload(nodes[occ[k]]))
                       /\ Len(e.samples[k]) <= 128

\* the report of the file with four occurrences of one id, the first with
\* 130 payload bytes: four sizes, three samples, the first cut to 128 bytes
C22_Witness ==
    /\ CurrentReport
    /\ data = SamplesBuffer
    /\ \H1234 \in DOMAIN unknown_chunks
    /\ unknown_chunks[\H1234].count = 4
    /\ unknown_chunks[\H1234].sizes = <<130, 1, 0, 1>>
    /\ Len(unknown_chunks[\H1234].samples) = 3
    /\ Len(unknown_chunks[\H1234].samples[1]) = 128

\* C23: two report builds for the same loaded file hold identical entries,
\* and the report built for the file now loaded has an entry only for an
\* id that occurs in this file's tree, counted as often as it occurs there,
\* whatever the report of an earlier file held.
C23_ReportBuiltFresh ==
    /\ \A j \in DOMAIN handed : \A k \in DOMAIN handed :
           handed[j].load = handed[k].load => handed[j].seen = handed[k].seen
    /\ CurrentReport =>
           /\ unknown_chunks = handed[Len(handed)].seen
           /\ \A x \in DOMAIN unknown_chunks :
                  /\ Occurrences(nodes, x) /= {}
                  /\ unknown_chunks[x].count = Cardinality(Occurrences(nodes, x))

\* the report was built twice for the first file, where 0x1234 occurs
\* three times, and then for the second file, where it occurs once
C23_Witness ==
    /\ CurrentReport
    /\ Len(handed) = 3
    /\ handed[1].load = 1 /\ handed[2].load = 1 /\ handed[3].load = 2
    /\ \H1234 \in DOMAIN handed[1].seen
    /\ handed[1].seen[\H1234].count = 3
    /\ handed[2].seen = handed[1].seen
    /\ \H1234 \in DOMAIN unknown_chunks
    /\ unknown_chunks[\H1234].count = 1

\* C24 as claimed: the report handed to the requester of one build is that
\* requester's own: whatever is built later, for the same file or for
\* another one, what the requester holds still has the entries it had when
\* it was handed over.
C24_HeldReportUnchanged ==
    \A k \in DOMAIN handed : Deref(handed[k].ref) = handed[k].seen

\* the map channel text with the UV face count read behind all the UV
\* records the payload declares
map_channel_as_declared(d) ==
    map_head(d) \o map_uv_records(d, 0, 6, Min(du16(d, 4), 10))
        \o map_faces(d, 6 + 8 * du16(d, 4))

\* a map channel node with a payload of 6 bytes or more is selected
MapChannelShown ==
    Shown /\ SelNode.cid = \H4200 /\ Len(SelPayload) >= 6 /\ slot_error = ""

\* C25 as claimed: the text of a map channel shows at most 10 UV records,
\* and the UV face count in it is the 16-bit value at payload offset
\* 6 + 8 * c for the declared UV count c, whether or not c exceeds 10.
C25_FaceCountBehindDeclaredUVs ==
    MapChannelShown => interpret_view = join(map_channel_as_declared(SelPayload))

\* a track node is selected and the experimental decode returned a text
TrackShown ==
    Shown /\ SelNode.cid \in TrackIds /\ xp_slot_error = ""

\* C26 as claimed: the text of a track of the regular family consists of
\* the lines before the loop and one line per key, there are at most
\* min(key_count, 50) key lines, and each of them belongs to a key whose
\* 6-byte header and whose value lie inside the payload, the frame number
\* shown being the 32-bit value at the start of that header.
C26_KeyLinesFromWholeKeys ==
    TrackShown =>
        LET d == SelPayload
            ks == keys_of(SelNode.cid, d)
        IN  /\ xp_interpret_view = track_text(SelNode.cid, d)
            /\ Len(ks) <= Min(read_track_header(d).keys, 50)
            /\ \A k \in DOMAIN ks :
                   /\ ks[k].at + 6 <= Len(d)
                   /\ ks[k].off = ks[k].at + 6
                   /\ ks[k].end <= Len(d)
                   /\ ks[k].frame = du32(d, ks[k].at)

\* friendly_name has returned a name for the symbolic name given
Named == friendly /= ""

\* C27 as claimed: friendly_name gives the names its documentation lists,
\* 'Viewport Layout' for VIEWPORT_LAYOUT, 'Mat Refblur' for MAT_REFBLUR and
\* 'NURBS CVS' for CHUNK_NURBS_CVS, and for CHUNK_MAP_CHANNEL, the raw
\* entry of 0x4200, it gives 'Map Channel', the name of that id in the
\* table of the cleaned variant.
C27_DocumentedNames ==
    Named =>
        /\ enum_name = VIEWPORT_LAYOUT => friendly = "Viewport Layout"
        /\ enum_name = MAT_REFBLUR => friendly = "Mat Refblur"
        /\ enum_name = CHUNK_NURBS_CVS => friendly = "NURBS CVS"
        /\ enum_name = CHUNK_MAP_CHANNEL => friendly = "Map Channel"

\* the payload of the selected node is one RGB sub-chunk: a header with id
\* 0x0011 and length 9 followed by three bytes
PayloadIsRgbChunk ==
    /\ Len(SelPayload) = 9
    /\ SubSeq(SelPayload, 1, 6) = Hdr(\H0011, 9)

\* C28 as claimed: when the payload of a material color node (0xA010,
\* 0xA020, 0xA030) of a parsed buffer is itself one well-formed RGB
\* sub-chunk, decode of the color node returns the three byte values of
\* that sub-chunk.
C28_ColorFromNestedRgbChunk ==
    (Shown /\ SelNode.cid \in ColorIds /\ PayloadIsRgbChunk) =>
        /\ slot_error = ""
        /\ interpret_view
               = color_name(SelNode.cid) \o ": " \o rgb_24(SubSeq(SelPayload, 7, 9))

\* C29: in every returned tree the first child of a node starts at the
\* start of the node's scope (offset 0 for the root, the byte after the
\* name terminator for a named object, payload_start otherwise) and every
\* later child starts at the previous child's start + size.
C29_ChildrenContiguous ==
    \A k \in DOMAIN returned :
        LET t == returned[k] IN
        \A i \in NodeIds(t) :
            \A j \in DOMAIN t[i].children :
                t[t[i].children[j]].start
                    = IF j = 1 THEN ScopeStart(t[i])
                      ELSE SpanEnd(t[t[i].children[j - 1]])

\* a returned tree in which a chunk read from the buffer has two children
C29_Witness ==
    \E k \in DOMAIN returned :
        \E i \in NonRoot(returned[k]) : Len(returned[k][i].children) >= 2

\* C30: in every returned tree of a buffer of n bytes every non-root node
\* has 0 <= start and start + size <= n, the 6-byte headers of two distinct
\* non-root nodes do not overlap, and there are at most n div 6 non-root
\* nodes.
C30_NodesInsideBuffer ==
    \A k \in DOMAIN returned :
        LET t == returned[k]
            n == Len(data)
        IN  /\ \A i \in NonRoot(t) : 0 <= t[i].start /\ SpanEnd(t[i]) <= n
            /\ \A i \in NonRoot(t) : \A j \in NonRoot(t) :
                   i /= j => (t[i].start + 6 <= t[j].start \/ t[j].start + 6 <= t[i].start)
            /\ Cardinality(NonRoot(t)) <= n \div 6

\* a returned tree of an 18-byte buffer with three non-root nodes, one of
\* them inside another
C30_Witness ==
    \E k \in DOMAIN returned :
        /\ Len(data) = 18
        /\ Cardinality(NonRoot(returned[k])) = 3
        /\ \E i \in NonRoot(returned[k]) : returned[k][i].parent /= 1

====
